---- MODULE Spec2Model ----
(***************************************************************************)
(* TeDasuke: the TeamDesk client.  The model covers the select builders    *)
(* and their selectAll() generators (src/table.ts), the request/error      *)
(* layer of TeamDeskClient (src/client.ts), the error classes              *)
(* (src/errors.ts) and the helpers of src/utils.ts.                        *)
(*                                                                         *)
(* Strings that are only compared or concatenated are TLA+ strings; a      *)
(* string that the code parses (the Retry-After header) is a sequence of   *)
(* one-character strings.                                                  *)
(***************************************************************************)
EXTENDS Integers, Sequences, FiniteSets, TLC

\* an optional value: None is undefined/null, Some(x) a present x
None == <<>>

Some(x) == <<x>>

IsSome(o) == Len(o) = 1

Val(o) == o[1]

\* a JavaScript number that may be NaN
Num(n) == [nan |-> FALSE, n |-> n]

NaN == [nan |-> TRUE, n |-> 0]

(***************************************************************************)
(* Bounds of the model.                                                    *)
(***************************************************************************)
\* requests one selectAll() sequence may issue before the model stops it
MaxPages == 3

\* records one write call may be given, and entries the answer may hold
MaxRecords == 2

(***************************************************************************)
(* src/utils.ts                                                            *)
(***************************************************************************)
MaxLimit == 500

\* new Error(message)
PlainError(message) == [name |-> "Error", message |-> message]

\* variant: the upper limit is not tested
validatePaginationLimitNoUpper(limit) ==
  IF limit < 1
  THEN [threw |-> TRUE, error |-> PlainError("Limit must be at least 1")]
  ELSE [threw |-> FALSE, value |-> limit]

\* validatePaginationLimit: the value, or a thrown Error
validatePaginationLimit(limit) ==
  IF limit < 1
  THEN [threw |-> TRUE, error |-> PlainError("Limit must be at least 1")]
  ELSE IF limit > MaxLimit
       THEN [threw |-> TRUE,
             error |-> PlainError("TeamDesk maximum limit is 500 records per request")]
       ELSE [threw |-> FALSE, value |-> limit]

\* one entry of body.errors after the map() of parseErrorResponse
MapApiError(err) ==
  IF err.t = "object"
  THEN [column |-> err.column,
        message |-> IF IsSome(err.message) THEN Val(err.message)
                    ELSE "Unknown error"]
  ELSE [column |-> None, message |-> err.s]

\* variant: the column is left out of the rendered entry
RenderApiErrorBare(e) == e.message

\* e.column ? `${e.column}: ${e.message}` : e.message
RenderApiError(e) ==
  IF IsSome(e.column) /\ Val(e.column) # ""
  THEN Val(e.column) \o ": " \o e.message
  ELSE e.message

RECURSIVE JoinWith(_, _)
\* Array.prototype.join
JoinWith(strs, sep) ==
  IF Len(strs) = 0 THEN ""
  ELSE IF Len(strs) = 1 THEN strs[1]
  ELSE strs[1] \o sep \o JoinWith(Tail(strs), sep)

\* parseErrorResponse(body): { message, errors }
parseErrorResponse(body) ==
  IF body.t = "string"
  THEN [message |-> body.s,
        errors |-> <<[column |-> None, message |-> body.s]>>]
  ELSE IF body.t = "object" /\ IsSome(body.errors)
  THEN LET errors == [i \in 1..Len(Val(body.errors)) |->
                        MapApiError(Val(body.errors)[i])]
       IN [message |-> JoinWith([i \in 1..Len(errors) |-> RenderApiError(errors[i])], "; "),
           errors |-> errors]
  ELSE IF body.t = "object" /\ IsSome(body.message)
  THEN [message |-> Val(body.message),
        errors |-> <<[column |-> None, message |-> Val(body.message)]>>]
  ELSE [message |-> "Unknown error",
        errors |-> <<[column |-> None, message |-> "Unknown error"]>>]

(***************************************************************************)
(* Number parsing used on the Retry-After header: parseInt(s, 10).         *)
(***************************************************************************)
Digits == <<"0", "1", "2", "3", "4", "5", "6", "7", "8", "9">>

IsDigit(c) == \E d \in 1..10 : Digits[d] = c

DigitVal(c) == (CHOOSE d \in 1..10 : Digits[d] = c) - 1

IsSpace(c) == c = " "

RECURSIVE SkipSpaces(_)
SkipSpaces(s) ==
  IF Len(s) > 0 /\ IsSpace(s[1]) THEN SkipSpaces(Tail(s)) ELSE s

RECURSIVE DigitPrefix(_, _)
\* value of the longest prefix of decimal digits of s, acc so far
DigitPrefix(s, acc) ==
  IF Len(s) > 0 /\ IsDigit(s[1])
  THEN DigitPrefix(Tail(s), acc * 10 + DigitVal(s[1]))
  ELSE acc

\* parseInt(s, 10): leading blanks skipped, optional sign, digit prefix;
\* NaN when no digit follows
parseInt(s) ==
  LET t == SkipSpaces(s)
      neg == Len(t) > 0 /\ t[1] = "-"
      u == IF Len(t) > 0 /\ (t[1] = "-" \/ t[1] = "+") THEN Tail(t) ELSE t
  IN IF Len(u) > 0 /\ IsDigit(u[1])
     THEN Num(IF neg THEN 0 - DigitPrefix(u, 0) ELSE DigitPrefix(u, 0))
     ELSE NaN

(***************************************************************************)
(* src/errors.ts: an error object is a record; name is the class.          *)
(***************************************************************************)
TeamDeskError(message, status, details, url) ==
  [name |-> "TeamDeskError", message |-> message, status |-> status,
   details |-> details, url |-> url, retryAfter |-> None]

AuthenticationError(message, status, url) ==
  [TeamDeskError(message, status, None, url)
     EXCEPT !.name = "AuthenticationError"]

ValidationError(message, status, details, url) ==
  [TeamDeskError(message, status, details, url) EXCEPT !.name = "ValidationError"]

NotFoundError(message, url) ==
  [TeamDeskError(message, Some(404), None, url) EXCEPT !.name = "NotFoundError"]

RateLimitError(message, retryAfter, url) ==
  [TeamDeskError(message, Some(429), None, url)
     EXCEPT !.name = "RateLimitError", !.retryAfter = retryAfter]

ServerError(message, status, url) ==
  [TeamDeskError(message, status, None, url) EXCEPT !.name = "ServerError"]

\* the classes for which `instanceof TeamDeskError` holds
TeamDeskErrorClasses ==
  {"TeamDeskError", "AuthenticationError", "ValidationError",
   "NotFoundError", "RateLimitError", "ServerError"}

(***************************************************************************)
(* URLs.  A URL, a path or a query string is a sequence of tokens whose    *)
(* concatenation is the text: every character of a caller-supplied name    *)
(* or expression is one token, every literal of the code is one token.     *)
(***************************************************************************)
\* characters encodeURIComponent leaves alone: A-Z a-z 0-9 - _ . ! ~ * ' ( )
Unreserved ==
  {"A", "B", "C", "D", "E", "F", "G", "H", "I", "J", "K", "L", "M",
   "N", "O", "P", "Q", "R", "S", "T", "U", "V", "W", "X", "Y", "Z",
   "a", "b", "c", "d", "e", "f", "g", "h", "i", "j", "k", "l", "m",
   "n", "o", "p", "q", "r", "s", "t", "u", "v", "w", "x", "y", "z",
   "0", "1", "2", "3", "4", "5", "6", "7", "8", "9",
   "-", "_", ".", "!", "~", "*", "'", "(", ")"}

\* the other characters of the model and their escapes: the bytes of the
\* character's UTF-8 form, each as % and two upper-case hex digits
Escapes ==
  {<<" ", <<"%", "2", "0">>>>,
   <<"&", <<"%", "2", "6">>>>,
   <<"%", <<"%", "2", "5">>>>,
   <<"=", <<"%", "3", "D">>>>,
   <<"/", <<"%", "2", "F">>>>,
   <<"?", <<"%", "3", "F">>>>,
   <<"[", <<"%", "5", "B">>>>,
   <<"]", <<"%", "5", "D">>>>,
   <<">", <<"%", "3", "E">>>>,
   <<",", <<"%", "2", "C">>>>,
   <<":", <<"%", "3", "A">>>>,
   <<"é", <<"%", "C", "3", "%", "A", "9">>>>}

\* variant: "&" and "=" are left alone, as encodeURI leaves them
EncodeCharAsURI(c) ==
  IF c \in Unreserved \cup {"&", "="} THEN <<c>>
  ELSE (CHOOSE p \in Escapes : p[1] = c)[2]

\* encodeURIComponent of one character
EncodeChar(c) ==
  IF c \in Unreserved THEN <<c>>
  ELSE (CHOOSE p \in Escapes : p[1] = c)[2]

RECURSIVE encodeURIComponent(_)
\* encodeURIComponent of a string
encodeURIComponent(str) ==
  IF Len(str) = 0 THEN <<>>
  ELSE EncodeChar(str[1]) \o encodeURIComponent(Tail(str))

\* encodeTableName
encodeTableName(name) == encodeURIComponent(name)

\* encodeViewName
encodeViewName(name) == encodeURIComponent(name)

RECURSIVE NatToChars(_)
\* String(n) for a non-negative integer
NatToChars(n) ==
  IF n < 10 THEN <<Digits[n + 1]>>
  ELSE NatToChars(n \div 10) \o <<Digits[(n % 10) + 1]>>

\* String(n)
NumToChars(n) == IF n < 0 THEN <<"-">> \o NatToChars(0 - n) ELSE NatToChars(n)

\* formatSort: `${column}//${direction}`
formatSort(column, direction) ==
  column \o <<"/", "/">> \o
  (IF direction = "DESC" THEN <<"D", "E", "S", "C">> ELSE <<"A", "S", "C">>)

\* variant: an array value becomes one part, its items joined with ","
QueryPartsJoined(entry) ==
  IF ~IsSome(entry.value) THEN <<>>
  ELSE IF entry.isArray
  THEN LET items == Val(entry.value)
           joined[i \in 0..Len(items)] ==
             IF i = 0 THEN <<>>
             ELSE IF i = 1 THEN items[1]
             ELSE joined[i - 1] \o <<",">> \o items[i]
       IN <<(<<entry.key, "=">> \o encodeURIComponent(joined[Len(items)]))>>
  ELSE <<(<<entry.key, "=">> \o encodeURIComponent(Val(entry.value)))>>

\* the `key=value` parts one entry of params contributes
QueryParts(entry) ==
  IF ~IsSome(entry.value) THEN <<>>
  ELSE IF entry.isArray
  THEN [i \in 1..Len(Val(entry.value)) |->
          <<entry.key, "=">> \o encodeURIComponent(Val(entry.value)[i])]
  ELSE <<(<<entry.key, "=">> \o encodeURIComponent(Val(entry.value)))>>

RECURSIVE FlattenParts(_)
FlattenParts(entries) ==
  IF Len(entries) = 0 THEN <<>>
  ELSE QueryParts(entries[1]) \o FlattenParts(Tail(entries))

RECURSIVE JoinTokens(_, _)
\* parts.join(sep) on token sequences
JoinTokens(parts, sep) ==
  IF Len(parts) = 0 THEN <<>>
  ELSE IF Len(parts) = 1 THEN parts[1]
  ELSE parts[1] \o <<sep>> \o JoinTokens(Tail(parts), sep)

\* buildQueryString(params): params is the list of the object's entries
buildQueryString(params) ==
  LET parts == FlattenParts(params)
  IN IF Len(parts) > 0 THEN <<"?">> \o JoinTokens(parts, "&") ELSE <<>>

(***************************************************************************)
(* src/client.ts                                                           *)
(***************************************************************************)
\* variant: the auth segment is put into the URL in bearer mode too
buildUrlWithSecret(config, path) ==
  LET cleanPath == IF Len(path) > 0 /\ path[1] = "/" THEN Tail(path) ELSE path
      authSegment ==
        IF IsSome(config.token) /\ Val(config.token) # ""
        THEN <<Val(config.token)>>
        ELSE <<Val(config.user), ":", Val(config.password)>>
  IN <<config.baseUrl, "/", config.appId, "/">> \o authSegment \o <<"/">> \o cleanPath

\* TeamDeskClient.buildUrl
buildUrl(config, path) ==
  LET cleanPath == IF Len(path) > 0 /\ path[1] = "/" THEN Tail(path) ELSE path
  IN IF config.useBearerAuth
     THEN <<config.baseUrl, "/", config.appId, "/">> \o cleanPath
     ELSE LET authSegment ==
                IF IsSome(config.token) /\ Val(config.token) # ""
                THEN <<Val(config.token)>>
                ELSE <<Val(config.user), ":", Val(config.password)>>
          IN <<config.baseUrl, "/", config.appId, "/">> \o authSegment
               \o <<"/">> \o cleanPath

\* response.ok
ResponseOk(response) == response.status >= 200 /\ response.status <= 299

\* response.json(): reads the whole body, then parses it
ResponseJson(response) ==
  IF response.body.t = "json"
  THEN [threw |-> FALSE, value |-> response.body.v]
  ELSE [threw |-> TRUE,
        value |-> [name |-> "SyntaxError", message |-> "Unexpected token"]]

\* response.text(): rejects when the body was already read
ResponseText(response, bodyUsed) ==
  IF bodyUsed \/ response.body.t # "text"
  THEN [threw |-> TRUE,
        value |-> [name |-> "TypeError", message |-> "Body already consumed"]]
  ELSE [threw |-> FALSE, value |-> response.body.raw]

\* the body handleErrorResponse hands to parseErrorResponse
ErrorBody(response) ==
  LET j == ResponseJson(response)
  IN IF ~j.threw THEN j.value
     ELSE LET t == ResponseText(response, TRUE)
          IN IF ~t.threw THEN [t |-> "string", s |-> t.value]
             ELSE [t |-> "string",
                   s |-> "HTTP " \o ToString(response.status) \o " "
                           \o response.statusText]

\* the retryAfter option of case 429
RetryAfterOf(response) ==
  LET retryAfter == response.retryAfter   \* headers.get: null when not sent
  IN IF IsSome(retryAfter) /\ Len(Val(retryAfter)) > 0
     THEN Some(parseInt(Val(retryAfter)))
     ELSE None

\* variant: 403 is missing from the authentication case
handleErrorResponseNo403(response, url) ==
  LET parsed == parseErrorResponse(ErrorBody(response))
      message == parsed.message
      errors == parsed.errors
      status == response.status
  IN IF status = 401
     THEN AuthenticationError("Authentication failed: " \o message,
                              Some(status), Some(url))
     ELSE IF status = 404
     THEN NotFoundError("Resource not found: " \o message, Some(url))
     ELSE IF status = 429
     THEN RateLimitError("Rate limit exceeded: " \o message,
                         RetryAfterOf(response), Some(url))
     ELSE IF status = 400 \/ status = 422
     THEN ValidationError("Validation failed: " \o message, Some(status),
                          Some(errors), Some(url))
     ELSE IF status >= 500
     THEN ServerError("Server error: " \o message, Some(status), Some(url))
     ELSE TeamDeskError("Request failed: " \o message, Some(status),
                        Some(errors), Some(url))

\* TeamDeskClient.handleErrorResponse: the error it throws
handleErrorResponse(response, url) ==
  LET parsed == parseErrorResponse(ErrorBody(response))
      message == parsed.message
      errors == parsed.errors
      status == response.status
  IN IF status = 401 \/ status = 403
     THEN AuthenticationError("Authentication failed: " \o message,
                              Some(status), Some(url))
     ELSE IF status = 404
     THEN NotFoundError("Resource not found: " \o message, Some(url))
     ELSE IF status = 429
     THEN RateLimitError("Rate limit exceeded: " \o message,
                         RetryAfterOf(response), Some(url))
     ELSE IF status = 400 \/ status = 422
     THEN ValidationError("Validation failed: " \o message, Some(status),
                          Some(errors), Some(url))
     ELSE IF status >= 500
     THEN ServerError("Server error: " \o message, Some(status), Some(url))
     ELSE TeamDeskError("Request failed: " \o message, Some(status),
                        Some(errors), Some(url))

\* the try block of request(): what it returns or throws
RequestTry(url, response) ==
  IF response.kind = "network"
  THEN [threw |-> TRUE,
        value |-> [name |-> "TypeError", message |-> response.message]]
  ELSE IF ~ResponseOk(response)
  THEN [threw |-> TRUE, value |-> handleErrorResponse(response, url)]
  ELSE ResponseJson(response)

\* variant: the catch block rethrows whatever it caught
RequestCatchRethrow(error, url) == error

\* the catch block of request(): the error it throws
RequestCatch(error, url) ==
  IF error.name \in TeamDeskErrorClasses
  THEN error
  ELSE TeamDeskError(IF error.name # "NotAnError" THEN error.message
                     ELSE "Unknown error",
                     None, None, Some(url))

\* TeamDeskClient.request, given the response the transport produces
request(url, response) ==
  LET r == RequestTry(url, response)
  IN IF r.threw
     THEN [threw |-> TRUE, error |-> RequestCatch(r.value, url)]
     ELSE [threw |-> FALSE, data |-> r.value]

(***************************************************************************)
(* src/table.ts: SelectBuilder and ViewSelectBuilder                       *)
(***************************************************************************)
batchSize == 500

\* new SelectBuilder / new ViewSelectBuilder: this.options after construction
NewOptions(columns) ==
  [columns |-> IF IsSome(columns) /\ Len(Val(columns)) > 0 THEN columns ELSE None,
   filter |-> None, sortColumn |-> None, sortDirection |-> None,
   skip |-> None, top |-> None]

\* one params entry, when the condition of its `if` holds
ParamIf(cond, key, value, isArray) ==
  IF cond THEN <<[key |-> key, value |-> Some(value), isArray |-> isArray]>>
  ELSE <<>>

\* SelectBuilder.buildQueryParams / ViewSelectBuilder.buildQueryParams
buildQueryParams(kind, o) ==
  buildQueryString(
    ParamIf(IsSome(o.columns) /\ Len(Val(o.columns)) > 0,
            "column", IF IsSome(o.columns) THEN Val(o.columns) ELSE <<>>, TRUE)
    \o ParamIf(kind = "table" /\ IsSome(o.filter) /\ Len(Val(o.filter)) > 0,
               "filter", IF IsSome(o.filter) THEN Val(o.filter) ELSE <<>>, FALSE)
    \o ParamIf(kind = "table" /\ IsSome(o.sortColumn) /\ Len(Val(o.sortColumn)) > 0,
               "sort",
               IF IsSome(o.sortColumn)
               THEN formatSort(Val(o.sortColumn),
                               IF IsSome(o.sortDirection) THEN Val(o.sortDirection)
                               ELSE "ASC")
               ELSE <<>>, FALSE)
    \o ParamIf(IsSome(o.top), "top",
               IF IsSome(o.top) THEN NumToChars(Val(o.top)) ELSE <<>>, FALSE)
    \o ParamIf(IsSome(o.skip), "skip",
               IF IsSome(o.skip) THEN NumToChars(Val(o.skip)) ELSE <<>>, FALSE))

\* the URL execute() requests
ExecuteUrl(cfg, kind, tableName, viewName, o) ==
  IF kind = "table"
  THEN buildUrl(cfg, encodeTableName(tableName) \o <<"/", "select.json">>
                       \o buildQueryParams(kind, o))
  ELSE buildUrl(cfg, encodeTableName(tableName) \o <<"/">>
                       \o encodeViewName(viewName) \o <<"/", "select.json">>
                       \o buildQueryParams(kind, o))

\* selectAll: let offset = this.options.skip || 0
StartOffset(o) == IF IsSome(o.skip) /\ Val(o.skip) # 0 THEN Val(o.skip) ELSE 0

\* variant: the page request keeps a top the caller set with limit()
PageOptionsCallerTop(o, offset) ==
  [o EXCEPT !.skip = Some(offset),
            !.top = IF IsSome(o.top) THEN o.top ELSE Some(batchSize)]

\* selectAll: builder.options = { ...this.options, skip: offset, top: batchSize }
PageOptions(o, offset) ==
  [o EXCEPT !.skip = Some(offset), !.top = Some(batchSize)]

\* variant: no test for an empty batch
IsEmptyBatchUntested(len) == FALSE

\* selectAll: batch.length === 0
IsEmptyBatch(len) == len = 0

\* variant: no test for a partial batch
IsPartialBatchUntested(len) == FALSE

\* selectAll: batch.length < batchSize
IsPartialBatch(len) == len < batchSize

\* variant: the next page starts at the last record of the page before
AdvanceOffsetOverlapping(offset) == offset + batchSize - 1

\* selectAll: offset += batchSize
AdvanceOffset(offset) == offset + batchSize

\* variant: one offset kept on the builder and shared by its generators
CursorOfBuilder(g) == 1

\* selectAll: `let offset` is a local of each generator invocation
CursorOf(g) == g

\* variant: the page options are assigned to this.options
ThisOptionsOverwritten(o, offset) ==
  [o EXCEPT !.skip = Some(offset), !.top = Some(batchSize)]

\* selectAll: the page options go to a new builder; this.options stays as it is
ThisOptionsAfterPage(o, offset) == o

(***************************************************************************)
(* State.                                                                  *)
(*   config   the client's configuration                                   *)
(*   kind     "table" for a SelectBuilder, "view" for a ViewSelectBuilder   *)
(*   options  the builder's this.options                                   *)
(*   intent   history: the fields as the constructor and mutators set them *)
(*   thrown   the error the last mutator call threw, if any, and the call  *)
(*   replaced history: the sort key the last sort() call took the place of *)
(*   gens     the selectAll() generators of the builder                    *)
(*   cursor   the `offset` locals of the generators                        *)
(*   exec     the builder's execute() call (asked: history, the fields as  *)
(*            the calls before it last set them)                           *)
(*   call     one call of a client operation (request layer)               *)
(*   disk     the cache directory: whether it exists, and its files        *)
(*   now      the clock (Date.now()), in ticks                             *)
(*   tasks    the calls of fetchWithCache, saveToCache and loadFromCache   *)
(*   fetched  history: per key, the data of the last fetchWithCache call   *)
(*            that returned fresh data, while its snapshot is untouched    *)
(***************************************************************************)
VARIABLES config, kind, options, intent, thrown, replaced, gens, cursor, exec,
          call, disk, now, tasks, fetched

\* the state of the cache helpers (src/cache.ts)
cacheVars == <<disk, now, tasks, fetched>>

\* the state of the client and its builders
clientVars ==
  <<config, kind, options, intent, thrown, replaced, gens, cursor, exec, call>>

vars == <<clientVars, cacheVars>>

\* the keys of the cache entries in use (README: "orders", "clients")
Keys == {"orders", "clients"}

\* a cache directory that does not exist yet
EmptyDisk == [dir |-> FALSE, files |-> [k \in Keys |-> None]]

\* no call of a cache helper has been made
CacheIdle ==
  /\ disk = EmptyDisk
  /\ now = 0
  /\ tasks = <<>>
  /\ fetched = [k \in Keys |-> None]

TableName == <<"O", "r", "d", "e", "r", "s">>

ViewName == <<"A", " ", "d">>

TokenConfig ==
  [appId |-> "15331", baseUrl |-> "https://www.teamdesk.net/secure/api/v2",
   useBearerAuth |-> FALSE, token |-> Some("tok"), user |-> None,
   password |-> None]

\* a generator that selectAll() has not been called for
IdleGen ==
  [pc |-> "idle", reqs |-> <<>>, resps |-> <<>>, pages |-> <<>>, s0 |-> None,
   url |-> None, err |-> None, fail |-> None, after |-> FALSE]

IdleExec ==
  [pc |-> "idle", req |-> None, at |-> None, asked |-> None, url |-> None,
   result |-> None]

IdleCall == [pc |-> "idle"]

\* what the transport can answer to a select request
PageLens == {0, 137, batchSize}

PageResponse(n) ==
  [kind |-> "http", status |-> 200, statusText |-> "OK",
   body |-> [t |-> "json", v |-> [t |-> "array", len |-> n]],
   retryAfter |-> None]

NetworkFailure == [kind |-> "network", message |-> "dns error"]

ServerFailure ==
  [kind |-> "http", status |-> 500, statusText |-> "Internal Server Error",
   body |-> [t |-> "text", raw |-> "<html>oops</html>"], retryAfter |-> None]

SelectResponses ==
  {PageResponse(n) : n \in PageLens} \cup {NetworkFailure, ServerFailure}

ColumnInputs == {None, Some(<<>>), Some(<< <<"N">>, <<"D">> >>)}

\* one builder on a table or a view, nothing called yet
InitBuilder(genIds) ==
  /\ config = TokenConfig
  /\ kind \in {"table", "view"}
  /\ \E columns \in ColumnInputs : options = NewOptions(columns)
  /\ intent = options
  /\ thrown = None
  /\ replaced = None
  /\ CacheIdle
  /\ gens = [g \in genIds |-> IdleGen]
  /\ cursor = [g \in genIds |-> 0]
  /\ exec = IdleExec
  /\ call = IdleCall

Init == InitBuilder({1})

(***************************************************************************)
(* Mutators.                                                               *)
(***************************************************************************)
\* SelectBuilder.filter
Filter(filterExpression) ==
  /\ kind = "table"
  /\ options' = [options EXCEPT !.filter = Some(filterExpression)]
  /\ intent' = [intent EXCEPT !.filter = Some(filterExpression)]
  /\ thrown' = None
  /\ UNCHANGED <<config, kind, replaced, gens, cursor, exec, call, cacheVars>>

\* the sort key of the options, if one is set
SortKeyOf(o) ==
  IF IsSome(o.sortColumn)
  THEN Some([column |-> Val(o.sortColumn), direction |-> Val(o.sortDirection)])
  ELSE None

\* variant: a sort key that is already set is kept
SortKeepsFirst(column, direction) ==
  /\ kind = "table"
  /\ options' = IF IsSome(options.sortColumn) THEN options
                ELSE [options EXCEPT !.sortColumn = Some(column),
                                     !.sortDirection = Some(direction)]
  /\ intent' = [intent EXCEPT !.sortColumn = Some(column),
                              !.sortDirection = Some(direction)]
  /\ thrown' = None
  /\ replaced' = IF IsSome(options.sortColumn) THEN SortKeyOf(options)
                 ELSE replaced
  /\ UNCHANGED <<config, kind, gens, cursor, exec, call, cacheVars>>

\* SelectBuilder.sort
Sort(column, direction) ==
  /\ kind = "table"
  /\ options' = [options EXCEPT !.sortColumn = Some(column),
                                !.sortDirection = Some(direction)]
  /\ intent' = [intent EXCEPT !.sortColumn = Some(column),
                              !.sortDirection = Some(direction)]
  /\ thrown' = None
  /\ replaced' = IF IsSome(options.sortColumn) THEN SortKeyOf(options)
                 ELSE replaced
  /\ UNCHANGED <<config, kind, gens, cursor, exec, call, cacheVars>>

\* variant: limit() assigns whatever it is given
LimitUnchecked(limit) ==
  /\ options' = [options EXCEPT !.top = Some(limit)]
  /\ intent' = [intent EXCEPT !.top = Some(limit)]
  /\ thrown' = None
  /\ UNCHANGED <<config, kind, replaced, gens, cursor, exec, call, cacheVars>>

\* SelectBuilder.limit / ViewSelectBuilder.limit
Limit(limit) ==
  /\ LET v == validatePaginationLimit(limit)
     IN IF v.threw
        THEN /\ thrown' = Some([error |-> v.error, op |-> "limit", arg |-> limit])
             /\ UNCHANGED <<options, intent>>
        ELSE /\ options' = [options EXCEPT !.top = Some(v.value)]
             /\ intent' = [intent EXCEPT !.top = Some(limit)]
             /\ thrown' = None
  /\ UNCHANGED <<config, kind, replaced, gens, cursor, exec, call, cacheVars>>

\* variant: skip() assigns the value before it tests it
SkipAssignsFirst(skip) ==
  /\ options' = [options EXCEPT !.skip = Some(skip)]
  /\ IF skip < 0
     THEN /\ thrown' = Some([error |-> PlainError("Skip must be non-negative"),
                             op |-> "skip", arg |-> skip])
          /\ UNCHANGED intent
     ELSE /\ intent' = [intent EXCEPT !.skip = Some(skip)]
          /\ thrown' = None
  /\ UNCHANGED <<config, kind, replaced, gens, cursor, exec, call, cacheVars>>

\* SelectBuilder.skip / ViewSelectBuilder.skip
Skip(skip) ==
  /\ IF skip < 0
     THEN /\ thrown' = Some([error |-> PlainError("Skip must be non-negative"),
                             op |-> "skip", arg |-> skip])
          /\ UNCHANGED <<options, intent>>
     ELSE /\ options' = [options EXCEPT !.skip = Some(skip)]
          /\ intent' = [intent EXCEPT !.skip = Some(skip)]
          /\ thrown' = None
  /\ UNCHANGED <<config, kind, replaced, gens, cursor, exec, call, cacheVars>>

(***************************************************************************)
(* execute()                                                               *)
(***************************************************************************)
\* execute() up to the await: the request is built from this.options
ExecStart ==
  /\ exec.pc = "idle"
  /\ exec' = [pc |-> "awaiting",
              req |-> Some([skip |-> options.skip, top |-> options.top]),
              at |-> Some([skip |-> intent.skip, top |-> intent.top]),
              asked |-> Some(intent),
              url |-> Some(ExecuteUrl(config, kind, TableName, ViewName, options)),
              result |-> None]
  /\ UNCHANGED <<config, kind, options, intent, thrown, replaced, gens, cursor, call,
                 cacheVars>>

\* execute() after the await: the records, or the error request() throws
ExecRespond ==
  /\ exec.pc = "awaiting"
  /\ \E response \in SelectResponses :
       LET out == request(Val(exec.url), response)
       IN exec' = [exec EXCEPT !.pc = "idle", !.url = None, !.asked = None,
                     !.result = Some(IF out.threw THEN out.error.name ELSE "ok")]
  /\ UNCHANGED <<config, kind, options, intent, thrown, replaced, gens, cursor, call,
                 cacheVars>>

(***************************************************************************)
(* selectAll()                                                             *)
(***************************************************************************)
\* the loop body up to the await: a builder with the page options executes
GenIssue(gen, offset) ==
  LET po == PageOptions(options, offset)
  IN [gen EXCEPT !.pc = "awaiting",
                 !.reqs = Append(@, [skip |-> Val(po.skip), top |-> Val(po.top)]),
                 !.url = Some(ExecuteUrl(config, kind, TableName, ViewName, po))]

\* variant: selectAll() runs its body up to the first await when called
SelectAllEager(g) ==
  /\ gens[g].pc = "idle"
  /\ LET offset == StartOffset(options)
     IN /\ cursor' = [cursor EXCEPT ![CursorOf(g)] = offset]
        /\ gens' = [gens EXCEPT
                      ![g] = [GenIssue(@, offset) EXCEPT !.s0 = Some(offset)]]
  /\ UNCHANGED <<config, kind, options, intent, thrown, replaced, exec, call,
                 cacheVars>>

\* calling selectAll() creates the generator; no statement of it has run
SelectAll(g) ==
  /\ gens[g].pc = "idle"
  /\ gens' = [gens EXCEPT ![g].pc = "created"]
  /\ UNCHANGED <<config, kind, options, intent, thrown, replaced, cursor, exec, call,
                 cacheVars>>

\* variant: a rejected await ends the sequence as if the data had run out
GenAfterAwaitSwallowed(gen, out) ==
  IF out.threw
  THEN [gen EXCEPT !.pc = "done", !.url = None]
  ELSE LET len == out.data.len
       IN IF len = 0
          THEN [gen EXCEPT !.pc = "done", !.url = None, !.resps = Append(@, len)]
          ELSE [gen EXCEPT !.pc = "yielded", !.url = None,
                           !.resps = Append(@, len), !.pages = Append(@, len)]

\* the loop body after the await: break on an empty batch, else yield it;
\* a rejected await leaves the generator with the error
GenAfterAwait(gen, out) ==
  IF out.threw
  THEN [gen EXCEPT !.pc = "failed", !.url = None, !.err = Some(out.error)]
  ELSE LET len == out.data.len
       IN IF IsEmptyBatch(len)
          THEN [gen EXCEPT !.pc = "done", !.url = None, !.resps = Append(@, len)]
          ELSE [gen EXCEPT !.pc = "yielded", !.url = None,
                           !.resps = Append(@, len), !.pages = Append(@, len)]

\* first pull: the generator starts, reads the start offset, issues page 0
PullFirst(g) ==
  /\ gens[g].pc = "created"
  /\ LET offset == StartOffset(options)
     IN /\ cursor' = [cursor EXCEPT ![CursorOf(g)] = offset]
        /\ gens' = [gens EXCEPT
                      ![g] = [GenIssue(@, offset) EXCEPT !.s0 = Some(offset)]]
        /\ options' = ThisOptionsAfterPage(options, offset)
  /\ UNCHANGED <<config, kind, intent, thrown, replaced, exec, call, cacheVars>>

\* a pull after a yield: stop after a partial batch, else advance and issue
PullNext(g) ==
  /\ gens[g].pc = "yielded"
  /\ LET len == gens[g].resps[Len(gens[g].resps)]
     IN IF IsPartialBatch(len)
        THEN /\ gens' = [gens EXCEPT ![g].pc = "done"]
             /\ UNCHANGED <<cursor, options>>
        ELSE /\ Len(gens[g].reqs) < MaxPages
             /\ cursor' = [cursor EXCEPT
                             ![CursorOf(g)] = AdvanceOffset(cursor[CursorOf(g)])]
             /\ gens' = [gens EXCEPT ![g] = GenIssue(@, cursor'[CursorOf(g)])]
             /\ options' = ThisOptionsAfterPage(options, cursor'[CursorOf(g)])
  /\ UNCHANGED <<config, kind, intent, thrown, replaced, exec, call, cacheVars>>

\* the awaited request of generator g settles
Respond(g) ==
  /\ gens[g].pc = "awaiting"
  /\ \E response \in SelectResponses :
       LET out == request(Val(gens[g].url), response)
           fail == IF out.threw
                   THEN Some([url |-> Val(gens[g].url), response |-> response])
                   ELSE None
       IN gens' = [gens EXCEPT
                     ![g] = [GenAfterAwait(@, out) EXCEPT !.fail = fail]]
  /\ UNCHANGED <<config, kind, options, intent, thrown, replaced, cursor, exec, call,
                 cacheVars>>

\* a pull on a finished generator resolves to done; no statement runs
PullClosed(g) ==
  /\ gens[g].pc \in {"done", "failed"}
  /\ ~gens[g].after
  /\ gens' = [gens EXCEPT ![g].after = TRUE]
  /\ UNCHANGED <<config, kind, options, intent, thrown, replaced, cursor, exec, call,
                 cacheVars>>

\* the consumer abandons the sequence (return() of the generator)
Return(g) ==
  /\ gens[g].pc \in {"created", "yielded"}
  /\ gens' = [gens EXCEPT ![g].pc = "done"]
  /\ UNCHANGED <<config, kind, options, intent, thrown, replaced, cursor, exec, call,
                 cacheVars>>

FilterInputs == {<<"a", "=", "1">>}

SortInputs == {[column |-> <<"N">>, direction |-> "DESC"]}

\* arguments the mutators accept
ValidLimits == {100}

ValidSkips == {250}

\* arguments of every kind, rejected ones included
LimitInputs == {0 - 5, 0, 1, 100, MaxLimit, MaxLimit + 1}

SkipInputs == {0 - 1, 0, 250}

\* one builder, one selectAll() sequence, execute() calls, accepted mutators
Next ==
  \/ \E f \in FilterInputs : Filter(f)
  \/ \E k \in SortInputs : Sort(k.column, k.direction)
  \/ \E n \in ValidLimits : Limit(n)
  \/ \E n \in ValidSkips : Skip(n)
  \/ ExecStart
  \/ ExecRespond
  \/ \E g \in DOMAIN gens : SelectAll(g)
  \/ \E g \in DOMAIN gens : PullFirst(g)
  \/ \E g \in DOMAIN gens : PullNext(g)
  \/ \E g \in DOMAIN gens : Respond(g)
  \/ \E g \in DOMAIN gens : PullClosed(g)
  \/ \E g \in DOMAIN gens : Return(g)

Spec == Init /\ [][Next]_vars

\* a view builder with two selectAll() sequences running side by side
InitTwo == InitBuilder({1, 2}) /\ kind = "view"

NextTwo ==
  \/ \E n \in ValidLimits : Limit(n)
  \/ \E n \in ValidSkips : Skip(n)
  \/ \E g \in DOMAIN gens : SelectAll(g)
  \/ \E g \in DOMAIN gens : PullFirst(g)
  \/ \E g \in DOMAIN gens : PullNext(g)
  \/ \E g \in DOMAIN gens : Respond(g)
  \/ \E g \in DOMAIN gens : PullClosed(g)
  \/ \E g \in DOMAIN gens : Return(g)

SpecTwo == InitTwo /\ [][NextTwo]_vars

\* filters and sort keys to choose from when a call is repeated
FilterChoices == FilterInputs \cup {<<"[", "T", "]", ">", "5">>}

SortChoices == SortInputs \cup {[column |-> <<"D">>, direction |-> "ASC"]}

\* one builder, mutators called with any argument, execute() calls
NextBuild ==
  \/ \E f \in FilterChoices : Filter(f)
  \/ \E k \in SortChoices : Sort(k.column, k.direction)
  \/ \E n \in LimitInputs : Limit(n)
  \/ \E n \in SkipInputs : Skip(n)
  \/ ExecStart
  \/ ExecRespond

SpecBuild == Init /\ [][NextBuild]_vars

(***************************************************************************)
(* The request layer: one call of a client operation and its outcome.      *)
(***************************************************************************)
BearerConfig == [TokenConfig EXCEPT !.useBearerAuth = TRUE]

UserConfig ==
  [TokenConfig EXCEPT !.token = None, !.user = Some("ann"),
                      !.password = Some("pw")]

Configs == {TokenConfig, BearerConfig, UserConfig}

\* request(): the headers sent with the call
RequestHeaders(cfg, given) ==
  LET base == [name \in {"Accept", "Content-Type"} |-> "application/json"]
      merged == [name \in DOMAIN base \cup DOMAIN given |->
                   IF name \in DOMAIN given THEN given[name] ELSE base[name]]
  IN IF cfg.useBearerAuth /\ IsSome(cfg.token) /\ Val(cfg.token) # ""
     THEN [name \in DOMAIN merged \cup {"Authorization"} |->
             IF name = "Authorization" THEN "Bearer " \o Val(cfg.token)
             ELSE merged[name]]
     ELSE merged

NoHeaders == [name \in {} |-> ""]

\* workflow: options?.workflow !== false ? 1 : 0
WorkflowParam(workflow) ==
  [key |-> "workflow",
   value |-> Some(NumToChars(IF workflow # Some(FALSE) THEN 1 ELSE 0)),
   isArray |-> FALSE]

\* the URL of create / update / upsert
WriteUrl(cfg, tableName, op, matchColumn, workflow) ==
  buildUrl(cfg,
    encodeTableName(tableName)
      \o <<"/", IF op = "create" THEN "create.json"
                ELSE IF op = "update" THEN "update.json" ELSE "upsert.json">>
      \o buildQueryString(
           ParamIf(op = "upsert" /\ IsSome(matchColumn) /\ Len(Val(matchColumn)) > 0,
                   "match", IF IsSome(matchColumn) THEN Val(matchColumn) ELSE <<>>,
                   FALSE)
           \o <<WorkflowParam(workflow)>>))

\* variant: status 300 counts as a success
WriteSuccessThrough300(status) == status >= 200 /\ status <= 300

\* success: result.status >= 200 && result.status < 300
WriteSuccess(status) == status >= 200 /\ status < 300

\* variant: the action of a record that was not written is "failed"
UpsertActionOfFailure(status) ==
  IF status = 201 THEN "created"
  ELSE IF status >= 200 /\ status < 300 THEN "updated"
  ELSE "failed"

\* action: result.status === 201 ? "created" : "updated"
UpsertAction(status) == IF status = 201 THEN "created" ELSE "updated"

\* variant: the results come out in the reverse of the backend's order
MapWriteResultsReversed(op, rawResults) ==
  [i \in 1..Len(rawResults) |->
     LET result == rawResults[Len(rawResults) + 1 - i]
     IN [success |-> WriteSuccess(result.status),
         status |-> result.status,
         data |-> <<>>,
         action |-> IF op = "upsert" THEN Some(UpsertAction(result.status))
                    ELSE None,
         id |-> result.id,
         key |-> result.key,
         errors |-> <<>>]]

\* rawResults.map of create / update / upsert
MapWriteResults(op, rawResults) ==
  [i \in 1..Len(rawResults) |->
     LET result == rawResults[i]
     IN [success |-> WriteSuccess(result.status),
         status |-> result.status,
         data |-> <<>>,
         action |-> IF op = "upsert" THEN Some(UpsertAction(result.status))
                    ELSE None,
         id |-> result.id,
         key |-> result.key,
         errors |-> <<>>]]

\* what the operation hands its caller once request() has settled
Finish(op, out) ==
  IF out.threw THEN out
  ELSE IF op \in {"create", "update", "upsert"}
  THEN [threw |-> FALSE, data |-> MapWriteResults(op, out.data.items)]
  ELSE out

\* a call in flight: url and headers as request() hands them to fetch
Sent(op, url, headers, records) ==
  [pc |-> "sent", op |-> op, url |-> url,
   headers |-> RequestHeaders(config, headers), records |-> records]

\* TeamDeskClient.describe
Describe ==
  /\ call.pc = "idle"
  /\ call' = Sent("describe", buildUrl(config, <<"/", "describe.json">>),
                  NoHeaders, 0)
  /\ UNCHANGED <<config, kind, options, intent, thrown, replaced, gens, cursor, exec,
                 cacheVars>>

\* client.table(t).select(columns).execute()
TableSelect(columns) ==
  /\ call.pc = "idle"
  /\ call' = Sent("select",
                  ExecuteUrl(config, "table", TableName, ViewName,
                             NewOptions(columns)),
                  NoHeaders, 0)
  /\ UNCHANGED <<config, kind, options, intent, thrown, replaced, gens, cursor, exec,
                 cacheVars>>

\* client.table(t).view(v).select(columns).execute()
ViewSelect(columns) ==
  /\ call.pc = "idle"
  /\ call' = Sent("viewselect",
                  ExecuteUrl(config, "view", TableName, ViewName,
                             NewOptions(columns)),
                  NoHeaders, 0)
  /\ UNCHANGED <<config, kind, options, intent, thrown, replaced, gens, cursor, exec,
                 cacheVars>>

\* TableClient.create with n records
Create(n, workflow) ==
  /\ call.pc = "idle"
  /\ call' = Sent("create", WriteUrl(config, TableName, "create", None, workflow),
                  NoHeaders, n)
  /\ UNCHANGED <<config, kind, options, intent, thrown, replaced, gens, cursor, exec,
                 cacheVars>>

\* TableClient.update with n records
Update(n, workflow) ==
  /\ call.pc = "idle"
  /\ call' = Sent("update", WriteUrl(config, TableName, "update", None, workflow),
                  NoHeaders, n)
  /\ UNCHANGED <<config, kind, options, intent, thrown, replaced, gens, cursor, exec,
                 cacheVars>>

\* TableClient.upsert with n records
Upsert(n, matchColumn, workflow) ==
  /\ call.pc = "idle"
  /\ call' = Sent("upsert",
                  WriteUrl(config, TableName, "upsert", matchColumn, workflow),
                  NoHeaders, n)
  /\ UNCHANGED <<config, kind, options, intent, thrown, replaced, gens, cursor, exec,
                 cacheVars>>

(***************************************************************************)
(* What the transport can answer.                                          *)
(***************************************************************************)
ErrorStatuses == {302, 400, 401, 403, 404, 409, 422, 429, 500, 503}

ErrorBodies ==
  {[t |-> "json",
    v |-> [t |-> "object",
           errors |-> Some(<<[t |-> "object", column |-> Some("Email"),
                              message |-> Some("is required")],
                             [t |-> "object", column |-> None,
                              message |-> Some("Record locked")]>>),
           message |-> None]],
   [t |-> "json",
    v |-> [t |-> "object", errors |-> None, message |-> Some("Table not found")]],
   [t |-> "json", v |-> [t |-> "string", s |-> "Forbidden"]],
   [t |-> "json", v |-> [t |-> "null"]],
   [t |-> "text", raw |-> "<html>Bad Gateway</html>"],
   [t |-> "unreadable"]}

\* Retry-After: not sent, delay-seconds ("30", "0"), or an HTTP-date
RetryAfterHeaders ==
  {None, Some(<<"3", "0">>), Some(<<"0">>),
   Some(<<"W", "e", "d", ",", " ", "2", "1", " ", "O", "c", "t">>)}

ErrorResponses ==
  {[kind |-> "http", status |-> st, statusText |-> "Status",
    body |-> b, retryAfter |-> h] :
     st \in ErrorStatuses, b \in ErrorBodies, h \in RetryAfterHeaders}

NetworkFailures ==
  {NetworkFailure, [kind |-> "network", message |-> "connection reset"]}

\* one entry of the backend's array: the entries differ in status, id, key,
\* and an entry of a record that was not written tells why
RawResult(st) ==
  [status |-> st,
   id |-> IF st \in {200, 201} THEN Some(st - 193) ELSE None,
   key |-> IF st = 201 THEN Some("K-8") ELSE None,
   errors |-> IF st >= 200 /\ st < 300 THEN <<>>
              ELSE <<[message |-> "Invalid value"]>>]

RawStatuses == {199, 200, 201, 299, 300, 404}

\* the decoded body of a successful answer to op for n input records; the
\* array a write operation gets back has any length up to MaxRecords
SuccessData(op, n) ==
  IF op \in {"select", "viewselect"}
  THEN {[t |-> "array", len |-> k] : k \in {0, 2}}
  ELSE IF op = "describe"
  THEN {[t |-> "schema"]}
  ELSE {[t |-> "array", len |-> Len(items), items |-> items] :
          items \in UNION {[1..k -> {RawResult(st) : st \in RawStatuses}] :
                             k \in 0..MaxRecords}}

\* 2xx answers: the decoded data, or a body that is not JSON
SuccessResponses(op, n) ==
  {[kind |-> "http", status |-> 200, statusText |-> "OK",
    body |-> [t |-> "json", v |-> d], retryAfter |-> None] :
     d \in SuccessData(op, n)}
  \cup {[kind |-> "http", status |-> 200, statusText |-> "OK",
         body |-> [t |-> "text", raw |-> "<html>login</html>"],
         retryAfter |-> None]}

Responses(op, n) ==
  ErrorResponses \cup NetworkFailures \cup SuccessResponses(op, n)

\* the call settles: request() on the transport's answer, then the mapping
Settle ==
  /\ call.pc = "sent"
  /\ \E response \in Responses(call.op, call.records) :
       call' = [pc |-> "returned", op |-> call.op, url |-> call.url,
                headers |-> call.headers, records |-> call.records,
                response |-> response,
                out |-> Finish(call.op, request(call.url, response))]
  /\ UNCHANGED <<config, kind, options, intent, thrown, replaced, gens, cursor, exec,
                 cacheVars>>


InitErr ==
  /\ config \in Configs
  /\ kind = "table"
  /\ options = NewOptions(None)
  /\ intent = options
  /\ thrown = None
  /\ replaced = None
  /\ CacheIdle
  /\ gens = [g \in {1} |-> IdleGen]
  /\ cursor = [g \in {1} |-> 0]
  /\ exec = IdleExec
  /\ call = IdleCall

NextErr ==
  \/ Describe
  \/ \E columns \in ColumnInputs : TableSelect(columns)
  \/ \E columns \in ColumnInputs : ViewSelect(columns)
  \/ \E n \in 0..MaxRecords, w \in {None, Some(FALSE)} : Create(n, w)
  \/ \E n \in 0..MaxRecords, w \in {None, Some(FALSE)} : Update(n, w)
  \/ \E n \in 0..MaxRecords, m \in {None, Some(<<"e", "m">>)},
        w \in {None, Some(FALSE)} : Upsert(n, m, w)
  \/ Settle

SpecErr == InitErr /\ [][NextErr]_vars

(***************************************************************************)
(* Properties of selectAll().                                              *)
(***************************************************************************)
LastOf(seq) == seq[Len(seq)]

FrontOf(seq) == SubSeq(seq, 1, Len(seq) - 1)

\* C1: once a request of a selectAll() sequence has returned a non-empty
\* page of fewer than 500 records, that page is the last page yielded, the
\* sequence has no error, and it has issued no request after that one; when
\* the backend returned 500 then 137 records, two pages were yielded and two
\* requests issued.
ShortPageTerminates ==
  \A g \in DOMAIN gens :
    LET gen == gens[g]
    IN /\ (Len(gen.resps) > 0 /\ LastOf(gen.resps) > 0
             /\ LastOf(gen.resps) < 500)
          => /\ gen.pc \in {"yielded", "done"}
             /\ gen.pages = gen.resps
             /\ Len(gen.reqs) = Len(gen.resps)
             /\ gen.err = None
       /\ gen.resps = <<500, 137>>
          => gen.pages = <<500, 137>> /\ Len(gen.reqs) = 2

ShortPageWitness ==
  \E g \in DOMAIN gens :
    gens[g].resps = <<500, 137>> /\ gens[g].pc = "done" /\ gens[g].after

\* C2: once a request of a selectAll() sequence has returned an empty page,
\* the sequence is finished without error, the empty page is not among the
\* yielded pages, and no further request was issued; when the backend
\* returned 500, 500, 0 records, two pages were yielded and three requests
\* issued.
EmptyPageTerminates ==
  \A g \in DOMAIN gens :
    LET gen == gens[g]
    IN /\ (Len(gen.resps) > 0 /\ LastOf(gen.resps) = 0)
          => /\ gen.pc = "done"
             /\ gen.err = None
             /\ gen.pages = FrontOf(gen.resps)
             /\ Len(gen.reqs) = Len(gen.resps)
       /\ gen.resps = <<500, 500, 0>>
          => gen.pages = <<500, 500>> /\ Len(gen.reqs) = 3

EmptyPageWitness ==
  \E g \in DOMAIN gens :
    gens[g].resps = <<500, 500, 0>> /\ gens[g].pc = "done" /\ gens[g].after

\* C3: the i-th request of a selectAll() sequence (counting from 0) carries
\* skip = s0 + 500*i and top = 500, s0 being the skip of the base query when
\* the sequence started (0 when none was set), whatever top the caller set;
\* the offsets of one sequence are strictly increasing.
PageRequestsAdvance ==
  \A g \in DOMAIN gens :
    LET gen == gens[g]
    IN /\ Len(gen.reqs) > 0 => IsSome(gen.s0)
       /\ \A i \in 1..Len(gen.reqs) :
            /\ gen.reqs[i].skip = Val(gen.s0) + 500 * (i - 1)
            /\ gen.reqs[i].top = 500
       /\ \A i, j \in 1..Len(gen.reqs) :
            i < j => gen.reqs[i].skip < gen.reqs[j].skip

PageRequestsWitness ==
  \E g \in DOMAIN gens :
    /\ Len(gens[g].reqs) = 3
    /\ gens[g].s0 = Some(250)
    /\ gens[g].reqs[3].skip = 1250
    /\ options.top = Some(100)

\* C4: when the request for page k of a selectAll() sequence fails, the
\* sequence ends with the error request() raises for that request and
\* response, pages 0..k-1 (all full) were delivered, the sequence has issued
\* k+1 requests in all (the failing one once), and none is in flight or
\* issued later.
PageFailurePropagates ==
  \A g \in DOMAIN gens :
    LET gen == gens[g]
    IN IsSome(gen.fail)
       => /\ gen.pc = "failed"
          /\ gen.url = None
          /\ IsSome(gen.err)
          /\ Val(gen.err) = request(Val(gen.fail).url, Val(gen.fail).response).error
          /\ Val(gen.err).name \in TeamDeskErrorClasses
          /\ Len(gen.reqs) = Len(gen.pages) + 1
          /\ gen.pages = gen.resps
          /\ \A i \in 1..Len(gen.pages) : gen.pages[i] = 500

PageFailureWitness ==
  \E g \in DOMAIN gens :
    /\ IsSome(gens[g].fail)
    /\ gens[g].pages = <<500, 500>>
    /\ gens[g].after

\* C5: two selectAll() sequences of one builder keep separate cursors: under
\* every interleaving each sequence requests s0, s0+500, s0+1000, ... from
\* its own start offset, its cursor stands at the offset of its own last
\* request, and a step of one sequence changes nothing of the other.
CursorsIndependent ==
  /\ [](\A g \in DOMAIN gens :
          LET gen == gens[g]
          IN Len(gen.reqs) > 0
             => /\ \A i \in 1..Len(gen.reqs) :
                     gen.reqs[i].skip = Val(gen.s0) + 500 * (i - 1)
                /\ cursor[g] = LastOf(gen.reqs).skip)
  /\ [][\A g, h \in DOMAIN gens :
          (g # h /\ gens'[g] # gens[g])
          => (gens'[h] = gens[h] /\ cursor'[h] = cursor[h])]_vars

CursorsWitness ==
  /\ gens[1].pc = "awaiting" /\ gens[2].pc = "awaiting"
  /\ Len(gens[1].reqs) = 2 /\ Len(gens[2].reqs) = 3
  /\ gens[1].s0 = Some(0) /\ gens[2].s0 = Some(250)

\* C6: execution never changes the builder: after any execute() calls and
\* selectAll() pulls the builder's columns, filter, sort, skip and top are
\* what the constructor and the mutators last set, and a request of
\* execute() carries the caller's skip and top.
BuilderUntouched ==
  /\ options = intent
  /\ exec.pc = "awaiting" => Val(exec.req) = Val(exec.at)

BuilderUntouchedWitness ==
  /\ exec.pc = "awaiting"
  /\ Val(exec.req) = [skip |-> Some(250), top |-> Some(100)]
  /\ \E g \in DOMAIN gens :
       /\ Len(gens[g].reqs) = 2
       /\ gens[g].pc \in {"failed", "done"}
       /\ LastOf(gens[g].reqs) = [skip |-> 500, top |-> 500]

(***************************************************************************)
(* Properties of the request layer.                                        *)
(***************************************************************************)
\* the class the status table of the documentation gives a non-2xx status
ClassOfStatus(status) ==
  IF status \in {401, 403} THEN "AuthenticationError"
  ELSE IF status = 404 THEN "NotFoundError"
  ELSE IF status = 429 THEN "RateLimitError"
  ELSE IF status \in {400, 422} THEN "ValidationError"
  ELSE IF status >= 500 THEN "ServerError"
  ELSE "TeamDeskError"

Returned == call.pc = "returned"

GotResponse == Returned /\ call.response.kind = "http"

NonOk == GotResponse /\ ~(call.response.status \in 200..299)

\* the body whose errors array has a field error and a bare message
IsFieldErrorsBody(body) ==
  body.t = "json" /\ body.v.t = "object" /\ IsSome(body.v.errors)

\* C7: for every non-2xx response the call fails with the error class the
\* status table gives: 401/403 AuthenticationError, 404 NotFoundError, 429
\* RateLimitError, 400/422 ValidationError, >= 500 ServerError, any other
\* status the base TeamDeskError; ValidationError and the base error carry
\* the field errors of the body; no other kind of exception is raised, also
\* when the body is not JSON.
StatusDecidesClass ==
  NonOk
  => /\ call.out.threw
     /\ call.out.error.name = ClassOfStatus(call.response.status)
     /\ call.out.error.name \in {"ValidationError", "TeamDeskError"}
        => /\ IsSome(call.out.error.details)
           /\ Len(Val(call.out.error.details)) >= 1
           /\ IsFieldErrorsBody(call.response.body)
              => Val(call.out.error.details) =
                   <<[column |-> Some("Email"), message |-> "is required"],
                     [column |-> None, message |-> "Record locked"]>>

StatusDecidesClassWitness ==
  /\ NonOk
  /\ call.response.status = 403
  /\ call.response.body.t = "text"
  /\ call.out.threw
  /\ call.out.error.name = "AuthenticationError"

\* whether the transport's answer is a failure of the request
IsFailure(response) ==
  \/ response.kind = "network"
  \/ ~(response.status \in 200..299)
  \/ response.body.t # "json"

\* C8: every failed request of select, view select, create, update, upsert
\* and describe reaches the caller as a thrown TeamDeskError or subclass;
\* a transport failure without a response gives a base TeamDeskError with no
\* status whose message is the transport failure's message.
FailuresAreTyped ==
  Returned
  => /\ IsFailure(call.response) <=> call.out.threw
     /\ call.out.threw => call.out.error.name \in TeamDeskErrorClasses
     /\ call.response.kind = "network"
        => /\ call.out.error.name = "TeamDeskError"
           /\ call.out.error.status = None
           /\ call.out.error.message = call.response.message

FailuresAreTypedWitness ==
  /\ Returned
  /\ call.op = "upsert"
  /\ call.response.kind = "network"
  /\ call.out.threw
  /\ call.out.error.message = "connection reset"

\* C9: every error a request raises carries the URL of that request, and
\* carries the HTTP status whenever a response was received: the status is
\* absent only when there was no response at all.
ErrorCarriesUrlAndStatus ==
  (Returned /\ call.out.threw)
  => /\ call.out.error.url = Some(call.url)
     /\ call.response.kind = "http"
        => call.out.error.status = Some(call.response.status)
     /\ call.response.kind = "network" => call.out.error.status = None

\* C10: a 429 response gives a RateLimitError whose retryAfter is the number
\* of seconds parsed from the Retry-After header when the header was sent,
\* and is absent when it was not.
RetryAfterIsSeconds ==
  (GotResponse /\ call.response.status = 429)
  => /\ call.out.threw
     /\ call.out.error.name = "RateLimitError"
     /\ IF IsSome(call.response.retryAfter)
        THEN /\ IsSome(call.out.error.retryAfter)
             /\ ~Val(call.out.error.retryAfter).nan
             /\ Val(call.out.error.retryAfter).n >= 0
             /\ Val(call.out.error.retryAfter) =
                  parseInt(Val(call.response.retryAfter))
        ELSE call.out.error.retryAfter = None

\* the class prefixes handleErrorResponse puts before the parsed message
MessagePrefixes ==
  {"Authentication failed: ", "Resource not found: ", "Rate limit exceeded: ",
   "Validation failed: ", "Server error: ", "Request failed: "}

\* the error of the call says m after its class prefix
HasMessage(m) == \E p \in MessagePrefixes : call.out.error.message = p \o m

\* C11: the message of an error response follows the priority: a body with
\* an errors array or a message field gives the structured message; a body
\* that is a bare string, JSON or not, gives the whole string; a body that
\* cannot be read at all gives "HTTP <status> <status text>".
MessageByPriority ==
  NonOk
  => LET body == call.response.body
     IN /\ call.out.threw
        /\ IsFieldErrorsBody(body)
           => HasMessage("Email: is required; Record locked")
        /\ (body.t = "json" /\ body.v.t = "object" /\ ~IsSome(body.v.errors)
              /\ IsSome(body.v.message))
           => HasMessage(Val(body.v.message))
        /\ (body.t = "json" /\ body.v.t = "string") => HasMessage(body.v.s)
        /\ body.t = "text" => HasMessage(body.raw)
        /\ body.t = "unreadable"
           => HasMessage("HTTP " \o ToString(call.response.status) \o " "
                           \o call.response.statusText)

(***************************************************************************)
(* parseErrorResponse on its own: a decoded body, then its parse.          *)
(***************************************************************************)
\* entries an errors array can hold before the model stops it
MaxErrors == 3

\* what the backend can put into body.errors
ApiErrorInputs ==
  {[t |-> "object", column |-> Some("Email"), message |-> Some("is required")],
   [t |-> "object", column |-> None, message |-> Some("Record locked")],
   [t |-> "object", column |-> Some("Qty"), message |-> None],
   [t |-> "string", s |-> "boom"]}

ErrorArrays ==
  UNION {[1..n -> ApiErrorInputs] : n \in 0..MaxErrors}

\* decoded bodies handed to parseErrorResponse
ParseInputs ==
  {[t |-> "object", errors |-> Some(a), message |-> m] :
     a \in ErrorArrays, m \in {None, Some("Request rejected")}}
  \cup {[t |-> "object", errors |-> None, message |-> Some("Table not found")],
        [t |-> "object", errors |-> None, message |-> None],
        [t |-> "string", s |-> "Forbidden"],
        [t |-> "null"]}

InitParse ==
  /\ config = TokenConfig
  /\ kind = "table"
  /\ options = NewOptions(None)
  /\ intent = options
  /\ thrown = None
  /\ replaced = None
  /\ CacheIdle
  /\ gens = [g \in {1} |-> IdleGen]
  /\ cursor = [g \in {1} |-> 0]
  /\ exec = IdleExec
  /\ \E body \in ParseInputs : call = [pc |-> "body", body |-> body]

\* const { message, errors } = parseErrorResponse(body)
ParseErrorResponse ==
  /\ call.pc = "body"
  /\ call' = [pc |-> "parsed", body |-> call.body,
              out |-> parseErrorResponse(call.body)]
  /\ UNCHANGED <<config, kind, options, intent, thrown, replaced, gens, cursor, exec,
                 cacheVars>>

NextParse == ParseErrorResponse

SpecParse == InitParse /\ [][NextParse]_vars

(***************************************************************************)
(* Properties of parseErrorResponse.                                       *)
(***************************************************************************)
\* a body with an errors array has been parsed
ParsedErrorsArray ==
  call.pc = "parsed" /\ call.body.t = "object" /\ IsSome(call.body.errors)

\* C12: for a body with an errors array the details list has the length
\* and order of the backend's array (entry i keeps the column and the
\* message of the backend's entry i), and the message is the entries in
\* that order joined with "; ", entry i being "column: message" when it has
\* a column and the bare message when it has none.
ErrorsJoinedInOrder ==
  ParsedErrorsArray
  => LET given == Val(call.body.errors)
         errors == call.out.errors
     IN /\ Len(errors) = Len(given)
        /\ \A i \in 1..Len(given) :
             given[i].t = "object"
             => /\ errors[i].column = given[i].column
                /\ IsSome(given[i].message)
                   => errors[i].message = Val(given[i].message)
        /\ call.out.message =
             JoinWith([i \in 1..Len(given) |->
                         IF given[i].t = "object" /\ IsSome(given[i].column)
                         THEN Val(given[i].column) \o ": " \o errors[i].message
                         ELSE errors[i].message],
                      "; ")

ErrorsJoinedWitness ==
  /\ ParsedErrorsArray
  /\ Val(call.body.errors) =
       <<[t |-> "object", column |-> None, message |-> Some("Record locked")],
         [t |-> "object", column |-> Some("Email"),
          message |-> Some("is required")]>>
  /\ call.out.message = "Record locked; Email: is required"
  /\ Len(call.out.errors) = 2

(***************************************************************************)
(* Properties of the builders.                                             *)
(***************************************************************************)
\* the last mutator call threw a plain Error and left the builder alone
Rejected(op, arg) ==
  /\ IsSome(thrown)
  /\ Val(thrown).op = op /\ Val(thrown).arg = arg
  /\ Val(thrown).error.name = "Error"
  /\ ~(Val(thrown).error.name \in TeamDeskErrorClasses)

\* C13: on a SelectBuilder and on a ViewSelectBuilder, limit(n) with n < 1
\* or n > 500 and skip(n) with n < 0 throw a plain Error that is not a
\* TeamDeskError, at the call, which changes neither the builder nor the
\* requests issued; limit(n) with 1 <= n <= 500 and skip(n) with n >= 0
\* succeed and set the field; so a builder never holds a rejected value.
BadArgumentsRejected ==
  /\ []( /\ IsSome(options.top) => Val(options.top) \in 1..500
         /\ IsSome(options.skip) => Val(options.skip) >= 0)
  /\ [][/\ \A n \in LimitInputs :
            Limit(n)
            => IF n < 1 \/ n > 500
               THEN Rejected("limit", n)' /\ UNCHANGED <<options, exec, gens, call>>
               ELSE options'.top = Some(n) /\ thrown' = None
        /\ \A n \in SkipInputs :
            Skip(n)
            => IF n < 0
               THEN Rejected("skip", n)' /\ UNCHANGED <<options, exec, gens, call>>
               ELSE options'.skip = Some(n) /\ thrown' = None]_vars

\* limit(500) and skip(0) were accepted, then limit(501) was rejected on a
\* view builder that has issued no request
BadArgumentsWitness ==
  /\ kind = "view"
  /\ Rejected("limit", 501)
  /\ options.top = Some(500) /\ options.skip = Some(0)
  /\ exec = IdleExec

(***************************************************************************)
(* Reading a URL back: what a server that splits and percent-decodes sees. *)
(***************************************************************************)
IsPrefix(pre, seq) ==
  Len(pre) <= Len(seq) /\ SubSeq(seq, 1, Len(pre)) = pre

RECURSIVE PercentDecode(_)
\* percent-decoding of a sequence of characters; an escape that is not
\* the UTF-8 form of a character makes the result malformed
PercentDecode(str) ==
  IF Len(str) = 0 THEN <<>>
  ELSE IF str[1] = "%"
  THEN IF \E p \in Escapes : IsPrefix(p[2], str)
       THEN LET p == CHOOSE q \in Escapes : IsPrefix(q[2], str)
            IN <<p[1]>> \o PercentDecode(SubSeq(str, Len(p[2]) + 1, Len(str)))
       ELSE <<"malformed">>
  ELSE <<str[1]>> \o PercentDecode(Tail(str))

RECURSIVE SplitOn(_, _)
\* str.split(sep): the pieces of a token sequence between the sep tokens
SplitOn(str, sep) ==
  IF \E i \in 1..Len(str) : str[i] = sep
  THEN LET i == CHOOSE j \in 1..Len(str) :
                  str[j] = sep /\ \A k \in 1..(j - 1) : str[k] # sep
       IN <<SubSeq(str, 1, i - 1)>> \o SplitOn(SubSeq(str, i + 1, Len(str)), sep)
  ELSE <<str>>

\* the part of a URL after its first "?"; empty when it has none
QueryOf(url) ==
  IF \E i \in 1..Len(url) : url[i] = "?"
  THEN LET i == CHOOSE j \in 1..Len(url) :
                  url[j] = "?" /\ \A k \in 1..(j - 1) : url[k] # "?"
       IN SubSeq(url, i + 1, Len(url))
  ELSE <<>>

\* one `key=value` piece, decoded
DecodedPair(piece) ==
  LET kv == SplitOn(piece, "=")
  IN IF Len(kv) = 2
     THEN [key |-> PercentDecode(kv[1]), value |-> PercentDecode(kv[2])]
     ELSE [key |-> <<"malformed">>, value |-> <<"malformed">>]

\* the parameters of a URL, in order, decoded
ParamsOf(url) ==
  LET query == QueryOf(url)
      pieces == IF Len(query) = 0 THEN <<>> ELSE SplitOn(query, "&")
  IN [i \in 1..Len(pieces) |-> DecodedPair(pieces[i])]

\* the values the parameters named key have, in order
RECURSIVE ValuesOf(_, _)
ValuesOf(params, key) ==
  IF Len(params) = 0 THEN <<>>
  ELSE (IF params[1].key = <<key>> THEN <<params[1].value>> ELSE <<>>)
         \o ValuesOf(Tail(params), key)

\* the value a field set to v must have on the wire: nothing or one value
Once(v) == IF IsSome(v) THEN <<Val(v)>> ELSE <<>>

\* C14: the request of execute() is a function of the value each field was
\* last given: its URL is the URL of a builder holding just those values,
\* whatever calls came before in whatever order; it has at most one sort,
\* filter, top and skip parameter, and each is the last value given: after
\* a second sort() only the second sort key is sent.
LastValueWins ==
  exec.pc = "awaiting"
  => LET asked == Val(exec.asked)
         params == ParamsOf(Val(exec.url))
     IN /\ Val(exec.url) = ExecuteUrl(config, kind, TableName, ViewName, asked)
        /\ ValuesOf(params, "filter") = Once(asked.filter)
        /\ ValuesOf(params, "sort") =
             (IF IsSome(asked.sortColumn)
              THEN <<Val(asked.sortColumn) \o <<"/", "/">>
                       \o (IF asked.sortDirection = Some("DESC")
                           THEN <<"D", "E", "S", "C">> ELSE <<"A", "S", "C">>)>>
              ELSE <<>>)
        /\ ValuesOf(params, "top") =
             (IF IsSome(asked.top) THEN <<NumToChars(Val(asked.top))>> ELSE <<>>)
        /\ ValuesOf(params, "skip") =
             (IF IsSome(asked.skip) THEN <<NumToChars(Val(asked.skip))>> ELSE <<>>)

\* execute() after sort(N, DESC) was replaced by sort(D, ASC), with a
\* filter, a limit and a skip set as well
LastValueWitness ==
  /\ exec.pc = "awaiting"
  /\ replaced = Some([column |-> <<"N">>, direction |-> "DESC"])
  /\ ValuesOf(ParamsOf(Val(exec.url)), "sort") = <<(<<"D", "/", "/", "A", "S", "C">>)>>
  /\ ValuesOf(ParamsOf(Val(exec.url)), "filter") = <<(<<"[", "T", "]", ">", "5">>)>>
  /\ ValuesOf(ParamsOf(Val(exec.url)), "top") = <<(<<"1">>)>>
  /\ ValuesOf(ParamsOf(Val(exec.url)), "skip") = <<(<<"0">>)>>

(***************************************************************************)
(* The URL of execute() on its own: a builder on a table or view of any    *)
(* name, then the URL its execute() requests.                              *)
(***************************************************************************)
\* characters a name or filter may hold before the model stops it
MaxName == 2

NameChars == {"a", " ", "&", "%", "=", "/", ",", "é"}

\* the table names, view names, column names and filters tried
Names == UNION {[1..n -> NameChars] : n \in 1..MaxName}

\* where the name under test is used
Roles == {"first column", "second column", "filter", "table", "view"}

InitEncode ==
  /\ config = TokenConfig
  /\ intent = NewOptions(None)
  /\ thrown = None
  /\ replaced = None
  /\ CacheIdle
  /\ gens = [g \in {1} |-> IdleGen]
  /\ cursor = [g \in {1} |-> 0]
  /\ exec = IdleExec
  /\ \E name \in Names, role \in Roles :
       /\ kind \in (IF role = "filter" THEN {"table"}
                    ELSE IF role = "view" THEN {"view"}
                    ELSE {"table", "view"})
       /\ \E columns \in (IF role = "first column"
                           THEN {Some(<<name, <<"N">>>>)}
                           ELSE IF role = "second column"
                           THEN {Some(<<<<"N">>, name>>)}
                           ELSE {None, Some(<<<<"N">>, <<"D">>>>)}),
             filter \in (IF role = "filter" THEN {Some(name)}
                          ELSE IF kind = "table" THEN {None} \cup {Some(f) : f \in FilterInputs}
                          ELSE {None}),
             sort \in (IF kind = "table" THEN {None} \cup {Some(k) : k \in SortInputs}
                        ELSE {None}),
             top \in {None} \cup {Some(n) : n \in ValidLimits},
             skip \in {None, Some(0)} :
            /\ options =
                 [NewOptions(columns) EXCEPT
                    !.filter = filter,
                    !.sortColumn = IF IsSome(sort) THEN Some(Val(sort).column)
                                   ELSE None,
                    !.sortDirection = IF IsSome(sort) THEN Some(Val(sort).direction)
                                      ELSE None,
                    !.top = top,
                    !.skip = skip]
            /\ call = [pc |-> "builder",
                       tableName |-> IF role = "table" THEN name ELSE TableName,
                       viewName |-> IF role = "view" THEN name ELSE ViewName]

\* execute() up to the request: the URL is assembled
BuildRequest ==
  /\ call.pc = "builder"
  /\ call' = [pc |-> "built", tableName |-> call.tableName,
              viewName |-> call.viewName,
              url |-> ExecuteUrl(config, kind, call.tableName, call.viewName,
                                 options)]
  /\ UNCHANGED <<config, kind, options, intent, thrown, replaced, gens, cursor,
                 exec, cacheVars>>

NextEncode == BuildRequest

SpecEncode == InitEncode /\ [][NextEncode]_vars

(***************************************************************************)
(* Properties of the assembled URL.                                        *)
(***************************************************************************)
Built == call.pc = "built"

\* the number of filter, sort, top and skip fields that are set
SetScalars(o) ==
  (IF IsSome(o.filter) THEN 1 ELSE 0) + (IF IsSome(o.sortColumn) THEN 1 ELSE 0)
  + (IF IsSome(o.top) THEN 1 ELSE 0) + (IF IsSome(o.skip) THEN 1 ELSE 0)

\* C15: in the query string of execute() a field that was never set has no
\* parameter, no parameter has an empty value, and the column list gives one
\* column parameter per column, in list order, each holding one column name
\* (never one value of comma-joined names); there are no other parameters.
UnsetFieldsAbsent ==
  Built
  => LET params == ParamsOf(call.url)
     IN /\ ~IsSome(options.filter) => ValuesOf(params, "filter") = <<>>
        /\ ~IsSome(options.sortColumn) => ValuesOf(params, "sort") = <<>>
        /\ ~IsSome(options.top) => ValuesOf(params, "top") = <<>>
        /\ ~IsSome(options.skip) => ValuesOf(params, "skip") = <<>>
        /\ ~IsSome(options.columns) => ValuesOf(params, "column") = <<>>
        /\ \A i \in 1..Len(params) : params[i].value # <<>>
        /\ IsSome(options.columns)
           => ValuesOf(params, "column") = Val(options.columns)
        /\ Len(params) = Len(ValuesOf(params, "column")) + SetScalars(options)

\* two columns, the first with a comma in its name, and nothing else set
UnsetFieldsWitness ==
  /\ Built
  /\ options.columns = Some(<<(<<"a", ",">>), <<"N">>>>)
  /\ SetScalars(options) = 0
  /\ Len(ParamsOf(call.url)) = 2

\* the part of a URL before its first "?"
PathOf(url) ==
  IF \E i \in 1..Len(url) : url[i] = "?"
  THEN LET i == CHOOSE j \in 1..Len(url) :
                  url[j] = "?" /\ \A k \in 1..(j - 1) : url[k] # "?"
       IN SubSeq(url, 1, i - 1)
  ELSE url

\* the parameters the options set, as key and value
ParametersSet(o) ==
  (IF IsSome(o.columns)
   THEN [i \in 1..Len(Val(o.columns)) |->
           [key |-> <<"column">>, value |-> Val(o.columns)[i]]]
   ELSE <<>>)
  \o (IF IsSome(o.filter)
      THEN <<[key |-> <<"filter">>, value |-> Val(o.filter)]>> ELSE <<>>)
  \o (IF IsSome(o.sortColumn)
      THEN <<[key |-> <<"sort">>,
              value |-> Val(o.sortColumn) \o <<"/", "/">>
                          \o (IF o.sortDirection = Some("DESC")
                              THEN <<"D", "E", "S", "C">> ELSE <<"A", "S", "C">>)]>>
      ELSE <<>>)
  \o (IF IsSome(o.top)
      THEN <<[key |-> <<"top">>, value |-> NumToChars(Val(o.top))]>> ELSE <<>>)
  \o (IF IsSome(o.skip)
      THEN <<[key |-> <<"skip">>, value |-> NumToChars(Val(o.skip))]>> ELSE <<>>)

\* C16: in the URL execute() assembles, the path segments after the base,
\* the application and the token are the table name, then the view name for
\* a view, then select.json, and percent-decoding the table and the view
\* segment gives back the names; splitting the query string on "&" and "="
\* and percent-decoding gives back exactly the parameters set, column names
\* and filter as they were given, also with space, "&", "%", "=", "/", ","
\* and a non-ASCII letter in them.
EncodingRoundTrip ==
  Built
  => LET segments == SplitOn(PathOf(call.url), "/")
     IN /\ Len(segments) = (IF kind = "table" THEN 5 ELSE 6)
        /\ PercentDecode(segments[4]) = call.tableName
        /\ kind = "view" => PercentDecode(segments[5]) = call.viewName
        /\ segments[Len(segments)] = <<"select.json">>
        /\ ParamsOf(call.url) = ParametersSet(options)

\* the filter "&=" was sent among other parameters and reads back as "&="
EncodingWitness ==
  /\ Built
  /\ options.filter = Some(<<"&", "=">>)
  /\ ValuesOf(ParamsOf(call.url), "filter") = <<(<<"&", "=">>)>>
  /\ Len(ParamsOf(call.url)) = 5

(***************************************************************************)
(* Properties of authentication.                                           *)
(***************************************************************************)
\* the text appears in the URL
UrlContains(url, text) == \E i \in 1..Len(url) : url[i] = text

\* C17: for every operation, in bearer mode the URL of the request (the one
\* an error of the call carries and the debug log prints) does not contain
\* the token and the request has the header Authorization: Bearer <token>;
\* otherwise the path segment after the appId is the token, or
\* user:password when no token is configured, and the request has no
\* Authorization header.
AuthModesExclusive ==
  call.pc \in {"sent", "returned"}
  => IF config.useBearerAuth
     THEN /\ ~UrlContains(call.url, Val(config.token))
          /\ "Authorization" \in DOMAIN call.headers
          /\ call.headers["Authorization"] = "Bearer " \o Val(config.token)
          /\ (call.pc = "returned" /\ call.out.threw)
             => ~UrlContains(Val(call.out.error.url), Val(config.token))
     ELSE LET segments == SplitOn(PathOf(call.url), "/")
          IN /\ segments[2] = <<config.appId>>
             /\ segments[3] = (IF IsSome(config.token)
                               THEN <<Val(config.token)>>
                               ELSE <<Val(config.user), ":", Val(config.password)>>)
             /\ ~("Authorization" \in DOMAIN call.headers)

\* an upsert in bearer mode failed; its error carries the URL
AuthModesWitness ==
  /\ Returned
  /\ config.useBearerAuth
  /\ call.op = "upsert"
  /\ call.out.threw
  /\ call.out.error.url = Some(call.url)
  /\ call.headers["Authorization"] = "Bearer tok"

(***************************************************************************)
(* Properties of the requests issued.                                      *)
(***************************************************************************)
\* the step issues a request for execute()
ExecIssues == exec.pc = "idle" /\ exec'.pc = "awaiting"

\* the requests the step issues for sequence g
GenIssues(g) == Len(gens'[g].reqs) - Len(gens[g].reqs)

\* the step is a call of filter(), sort(), limit() or skip()
MutatorStep ==
  options' # options \/ intent' # intent \/ thrown' # thrown
    \/ replaced' # replaced

\* C18: a builder that was only constructed has issued no request; a
\* mutator call and a selectAll() call issue none; a request of a
\* selectAll() sequence is issued only by a pull (the first, or one after a
\* yield), one per pull at most; an execute() call has exactly one request
\* in flight until it settles; a response, failed or not, never makes the
\* request go out again: every request issued has been answered at most
\* once and every answer belongs to one request.
RequestsOnlyByTerminals ==
  /\ [](/\ exec.pc = "awaiting" <=> IsSome(exec.url)
        /\ (exec.pc = "idle" /\ exec.result = None) => exec.req = None
        /\ \A g \in DOMAIN gens :
             /\ gens[g].pc = "awaiting" <=> IsSome(gens[g].url)
             /\ gens[g].pc \in {"idle", "created"} => Len(gens[g].reqs) = 0
             /\ Len(gens[g].reqs) =
                  Len(gens[g].resps)
                    + (IF gens[g].pc = "awaiting" THEN 1 ELSE 0)
                    + (IF IsSome(gens[g].fail) THEN 1 ELSE 0))
  /\ [][/\ MutatorStep
           => ~ExecIssues /\ \A g \in DOMAIN gens : GenIssues(g) = 0
        /\ \A g \in DOMAIN gens :
             /\ GenIssues(g) \in {0, 1}
             /\ GenIssues(g) = 1 => gens[g].pc \in {"created", "yielded"}
             /\ (gens[g].pc = "idle" /\ gens'[g] # gens[g])
                => gens'[g].pc = "created" /\ ~ExecIssues
        /\ (exec.pc = "awaiting" /\ exec' # exec)
           => /\ exec'.pc = "idle" /\ exec'.url = None
              /\ exec'.req = exec.req]_vars

\* after limit() and skip(), selectAll() was called and not pulled, and
\* execute() never called: nothing has been requested
RequestsWitness ==
  /\ options.top = Some(100) /\ options.skip = Some(250)
  /\ exec = IdleExec
  /\ \E g \in DOMAIN gens :
       gens[g].pc = "created" /\ Len(gens[g].reqs) = 0 /\ gens[g].url = None

(***************************************************************************)
(* Properties of the write operations.                                     *)
(***************************************************************************)
\* create, update or upsert has returned its results
Wrote ==
  Returned /\ call.op \in {"create", "update", "upsert"} /\ ~call.out.threw

\* the array the backend answered the write call with
RawOf(response) == response.body.v.items

\* what the mapping does give: one result per entry of the array the
\* backend answered with, the i-th result carrying the status, id and key
\* of the i-th entry
ResultPerBackendEntry ==
  Wrote
  => LET raw == RawOf(call.response)
         results == call.out.data
     IN /\ Len(results) = Len(raw)
        /\ \A i \in 1..Len(raw) :
             /\ results[i].status = raw[i].status
             /\ results[i].id = raw[i].id
             /\ results[i].key = raw[i].key

\* C19: create, update and upsert called with N records return exactly N
\* results, the i-th result being the outcome the backend reported in the
\* i-th place.
ResultPerInputRecord ==
  Wrote
  => /\ Len(call.out.data) = call.records
     /\ \A i \in 1..Len(call.out.data) :
          call.out.data[i].status = RawOf(call.response)[i].status

\* C20: in every write result success is true exactly when 200 <= status
\* < 300; in an upsert result a successful record has the action "created"
\* when its status is 201 and "updated" otherwise; create and update
\* results have no action.
SuccessFromStatus ==
  Wrote
  => \A i \in 1..Len(call.out.data) :
       LET result == call.out.data[i]
       IN /\ result.success <=> (200 <= result.status /\ result.status < 300)
          /\ (call.op = "upsert" /\ result.success)
             => result.action =
                  Some(IF result.status = 201 THEN "created" ELSE "updated")
          /\ call.op # "upsert" => result.action = None

\* an upsert answered with statuses 201, 200 gave created, updated
SuccessFromStatusWitness ==
  /\ Wrote
  /\ call.op = "upsert"
  /\ Len(call.out.data) = 2
  /\ call.out.data[1].status = 201 /\ call.out.data[2].status = 200
  /\ call.out.data[1].action = Some("created")
  /\ call.out.data[2].action = Some("updated")
  /\ call.out.data[1].success /\ call.out.data[2].success

(***************************************************************************)
(* src/cache.ts: the snapshot cache.                                       *)
(*                                                                         *)
(* A snapshot is the text JSON.stringify(data, null, 2) in the file        *)
(* <cacheDir>/<key>.json.  The data are numbers and arrays of numbers;     *)
(* texts are sequences of characters.                                      *)
(***************************************************************************)

JsonNumber(n) == [t |-> "number", n |-> n]

JsonArray(items) == [t |-> "array", items |-> items]

\* the truthiness of a value: if (cached)
Truthy(value) == IF value.t = "number" THEN value.n # 0 ELSE TRUE

RECURSIVE JsonItems(_)
\* the items of a pretty-printed array, one per line, indented by two
JsonItems(items) ==
  IF Len(items) = 0 THEN <<>>
  ELSE <<"\n", " ", " ">> \o NumToChars(items[1])
       \o (IF Len(items) > 1 THEN <<",">> ELSE <<>>) \o JsonItems(Tail(items))

\* JSON.stringify(data, null, 2)
JsonStringify(data) ==
  IF data.t = "number" THEN NumToChars(data.n)
  ELSE IF Len(data.items) = 0 THEN <<"[", "]">>
  ELSE <<"[">> \o JsonItems(data.items) \o <<"\n", "]">>

IsJsonSpace(c) == c = " " \/ c = "\n"

RECURSIVE JsonTrim(_)
\* a text without the whitespace around it
JsonTrim(s) ==
  IF Len(s) > 0 /\ IsJsonSpace(s[1]) THEN JsonTrim(Tail(s))
  ELSE IF Len(s) > 0 /\ IsJsonSpace(s[Len(s)])
  THEN JsonTrim(SubSeq(s, 1, Len(s) - 1))
  ELSE s

\* a JSON number of the texts in use: digits, no leading zero
IsJsonNumber(s) ==
  /\ Len(s) > 0
  /\ \A i \in 1..Len(s) : IsDigit(s[i])
  /\ Len(s) > 1 => s[1] # "0"

\* JSON.parse(content): the value, or nothing when it throws a SyntaxError
JsonParse(content) ==
  LET s == JsonTrim(content)
  IN IF IsJsonNumber(s) THEN Some(JsonNumber(DigitPrefix(s, 0)))
     ELSE IF Len(s) >= 2 /\ s[1] = "[" /\ s[Len(s)] = "]"
     THEN LET inner == JsonTrim(SubSeq(s, 2, Len(s) - 1))
              parts == SplitOn(inner, ",")
              items == [i \in 1..Len(parts) |-> JsonTrim(parts[i])]
          IN IF Len(inner) = 0 THEN Some(JsonArray(<<>>))
             ELSE IF \A i \in 1..Len(items) : IsJsonNumber(items[i])
             THEN Some(JsonArray([i \in 1..Len(items) |->
                                    DigitPrefix(items[i], 0)]))
             ELSE None
     ELSE None

\* the ticks of the clock a run may see
MaxClock == 2

\* the milliseconds of one tick of the clock
MsPerTick == 60000

\* a call of a cache helper that has not been made
IdleTask ==
  [op |-> "none", pc |-> "idle", key |-> "", data |-> None, error |-> None,
   cached |-> None, result |-> None]

\* the data a fetcher returns or a caller saves
DataInputs ==
  {JsonNumber(0), JsonNumber(7), JsonNumber(12), JsonArray(<<7, 12>>)}

\* the errors a fetcher throws
FetcherErrors ==
  {PlainError("fetcher failed"),
   [name |-> "NetworkError", message |-> "Network request failed"]}

\* the errors of Deno.mkdir and Deno.writeTextFile
PermissionDenied == [name |-> "PermissionDenied", message |-> "mkdir"]

NotFound == [name |-> "NotFound", message |-> "open"]

WriteError == [name |-> "Error", message |-> "No space left on device"]

\* a file after new was written at its start over old
Overlay(new, old) == new \o SubSeq(old, Len(new) + 1, Len(old))

\* loadFromCache(cacheDir, key): the parsed content, or nothing (null) when
\* the directory or the file is missing or the content is not JSON
loadFromCache(d, key) ==
  IF ~d.dir \/ ~IsSome(d.files[key]) THEN None
  ELSE JsonParse(Val(d.files[key]).content)

\* getCacheInfo(cacheDir, key).ageInMinutes, or nothing without the file
getCacheInfo(d, key, clock) ==
  IF ~d.dir \/ ~IsSome(d.files[key]) THEN None
  ELSE Some((((clock - Val(d.files[key]).mtime) * MsPerTick) \div 1000) \div 60)

\* fetchWithCache is called: the fetcher starts
FetchWithCache(t, key) ==
  /\ tasks[t].pc = "idle"
  /\ tasks' = [tasks EXCEPT ![t] = [IdleTask EXCEPT !.op = "fetchWithCache",
                                               !.key = key,
                                               !.pc = "fetcher"]]
  /\ UNCHANGED <<clientVars, disk, now, fetched>>

\* const data = await fetcher(); saveToCache is entered
FetcherReturns(t, data) ==
  /\ tasks[t].pc = "fetcher"
  /\ tasks' = [tasks EXCEPT ![t].data = Some(data), ![t].pc = "mkdir"]
  /\ UNCHANGED <<clientVars, disk, now, fetched>>

\* the fetcher throws: the catch block is entered
FetcherThrows(t, error) ==
  /\ tasks[t].pc = "fetcher"
  /\ tasks' = [tasks EXCEPT ![t].error = Some(error), ![t].pc = "read"]
  /\ UNCHANGED <<clientVars, disk, now, fetched>>

\* saveToCache is called by the program
SaveToCache(t, key, data) ==
  /\ tasks[t].pc = "idle"
  /\ tasks' = [tasks EXCEPT ![t] = [IdleTask EXCEPT !.op = "saveToCache",
                                               !.key = key,
                                               !.data = Some(data),
                                               !.pc = "mkdir"]]
  /\ UNCHANGED <<clientVars, disk, now, fetched>>

\* loadFromCache is called by the program
LoadFromCache(t, key) ==
  /\ tasks[t].pc = "idle"
  /\ tasks' = [tasks EXCEPT ![t] = [IdleTask EXCEPT !.op = "loadFromCache",
                                               !.key = key,
                                               !.pc = "read"]]
  /\ UNCHANGED <<clientVars, disk, now, fetched>>

\* saveToCache throws error: fetchWithCache catches it, the caller of
\* saveToCache gets it
SaveThrows(t, error) ==
  IF tasks[t].op = "fetchWithCache"
  THEN [tasks EXCEPT ![t].error = Some(error), ![t].pc = "read"]
  ELSE [tasks EXCEPT ![t].result = Some([error |-> error]), ![t].pc = "threw"]

\* await Deno.mkdir(cacheDir, { recursive: true })
Mkdir(t) ==
  /\ tasks[t].pc = "mkdir"
  /\ disk' = [disk EXCEPT !.dir = TRUE]
  /\ tasks' = [tasks EXCEPT ![t].pc = "open"]
  /\ UNCHANGED <<clientVars, now, fetched>>

\* Deno.mkdir rejects
MkdirThrows(t) ==
  /\ tasks[t].pc = "mkdir"
  /\ tasks' = SaveThrows(t, PermissionDenied)
  /\ UNCHANGED <<clientVars, disk, now, fetched>>

\* Deno.writeTextFile, first half: the file is created or truncated
WriteOpen(t) ==
  /\ tasks[t].pc = "open"
  /\ IF disk.dir
     THEN /\ disk' = [disk EXCEPT !.files[tasks[t].key] =
                        Some([content |-> <<>>, mtime |-> now])]
          /\ fetched' = [fetched EXCEPT ![tasks[t].key] = None]
          /\ tasks' = [tasks EXCEPT ![t].pc = "write"]
     ELSE /\ tasks' = SaveThrows(t, NotFound)
          /\ UNCHANGED <<disk, fetched>>
  /\ UNCHANGED <<clientVars, now>>

\* Deno.writeTextFile, second half: the text is written at the start of
\* the file; saveToCache returns, fetchWithCache returns the fresh data
Write(t) ==
  LET key == tasks[t].key
      text == JsonStringify(Val(tasks[t].data))
      there == disk.dir /\ IsSome(disk.files[key])
      fresh == tasks[t].op = "fetchWithCache"
  IN /\ tasks[t].pc = "write"
     /\ disk' = IF there
                THEN [disk EXCEPT !.files[key] =
                        Some([content |-> Overlay(text, Val(@).content),
                              mtime |-> now])]
                ELSE disk
     /\ tasks' = [tasks EXCEPT
                    ![t].result =
                      IF fresh
                      THEN Some([data |-> Val(tasks[t].data),
                                 fromCache |-> FALSE])
                      ELSE None,
                    ![t].pc = "returned"]
     /\ fetched' = [fetched EXCEPT ![key] =
                      IF there /\ fresh THEN tasks[t].data ELSE None]
     /\ UNCHANGED <<clientVars, now>>

\* Deno.writeTextFile rejects after the file was truncated
WriteThrows(t) ==
  /\ tasks[t].pc = "write"
  /\ tasks' = SaveThrows(t, WriteError)
  /\ UNCHANGED <<clientVars, disk, now, fetched>>

\* variant: a catch block that makes up an empty result
fetchWithCacheCatchEmpty(task, cached) ==
  IF IsSome(cached) /\ Truthy(Val(cached))
  THEN [task EXCEPT !.cached = cached, !.pc = "stat"]
  ELSE [task EXCEPT !.result = Some([data |-> JsonArray(<<>>),
                                     fromCache |-> TRUE, cacheAge |-> None]),
                    !.pc = "returned"]

\* the catch block of fetchWithCache after loadFromCache:
\* if (cached) { ... } throw error
fetchWithCacheCatch(task, cached) ==
  IF IsSome(cached) /\ Truthy(Val(cached))
  THEN [task EXCEPT !.cached = cached, !.pc = "stat"]
  ELSE [task EXCEPT !.result = Some([error |-> Val(task.error)]),
                    !.pc = "threw"]

\* loadFromCache runs, for the program or in the catch block
Read(t) ==
  LET cached == loadFromCache(disk, tasks[t].key)
  IN /\ tasks[t].pc = "read"
     /\ tasks' =
          IF tasks[t].op = "loadFromCache"
          THEN [tasks EXCEPT ![t].result = Some([value |-> cached]),
                             ![t].pc = "returned"]
          ELSE [tasks EXCEPT ![t] = fetchWithCacheCatch(tasks[t], cached)]
     /\ UNCHANGED <<clientVars, disk, now, fetched>>

\* const cacheInfo = await getCacheInfo(cacheDir, key); return { data:
\* cached, fromCache: true, cacheAge: cacheInfo?.ageInMinutes }
Stat(t) ==
  /\ tasks[t].pc = "stat"
  /\ tasks' = [tasks EXCEPT
                 ![t].result =
                   Some([data |-> Val(tasks[t].cached), fromCache |-> TRUE,
                         cacheAge |-> getCacheInfo(disk, tasks[t].key, now)]),
                 ![t].pc = "returned"]
  /\ UNCHANGED <<clientVars, disk, now, fetched>>

\* the caller has the result or the error of the call
Settled(t) ==
  /\ tasks[t].pc \in {"returned", "threw"}
  /\ tasks' = [tasks EXCEPT ![t] = IdleTask]
  /\ UNCHANGED <<clientVars, disk, now, fetched>>

\* clearCache(cacheDir): the directory and its files are removed
ClearCache ==
  /\ disk # EmptyDisk
  /\ disk' = EmptyDisk
  /\ fetched' = [k \in Keys |-> None]
  /\ UNCHANGED <<clientVars, now, tasks>>

\* time passes
Tick ==
  /\ now < MaxClock
  /\ now' = now + 1
  /\ UNCHANGED <<clientVars, disk, tasks, fetched>>

\* the client is not used; taskIds are the calls that may be in flight
InitCache(taskIds) ==
  /\ config = TokenConfig
  /\ kind = "table"
  /\ options = NewOptions(None)
  /\ intent = options
  /\ thrown = None
  /\ replaced = None
  /\ gens = <<>>
  /\ cursor = <<>>
  /\ exec = IdleExec
  /\ call = IdleCall
  /\ disk = EmptyDisk
  /\ now = 0
  /\ tasks = [t \in taskIds |-> IdleTask]
  /\ fetched = [k \in Keys |-> None]

\* calls of fetchWithCache made one after the other
InitSeq == InitCache({1})

NextSeq ==
  \/ \E key \in Keys : FetchWithCache(1, key)
  \/ \E data \in DataInputs : FetcherReturns(1, data)
  \/ \E error \in FetcherErrors : FetcherThrows(1, error)
  \/ Mkdir(1)
  \/ MkdirThrows(1)
  \/ WriteOpen(1)
  \/ Write(1)
  \/ WriteThrows(1)
  \/ Read(1)
  \/ Stat(1)
  \/ Settled(1)
  \/ ClearCache
  \/ Tick

SpecSeq == InitSeq /\ [][NextSeq]_vars

(***************************************************************************)
(* Properties of fetchWithCache.                                           *)
(***************************************************************************)

\* call t is a fetchWithCache whose fetcher threw
FetcherFailed(t) ==
  /\ tasks[t].op = "fetchWithCache"
  /\ ~IsSome(tasks[t].data)
  /\ IsSome(tasks[t].error)

\* call t is over
Over(t) == tasks[t].pc \in {"returned", "threw"}

\* C21: a fetchWithCache call on a key whose fetcher fails, made after a
\* call on that key returned fresh data, returns that data with fromCache
\* true and a cacheAge that is not negative, whatever the data is.
StaleDataOnFailure ==
  \A t \in DOMAIN tasks :
    (FetcherFailed(t) /\ Over(t) /\ IsSome(fetched[tasks[t].key]))
    => /\ tasks[t].pc = "returned"
       /\ Val(tasks[t].result).data = Val(fetched[tasks[t].key])
       /\ Val(tasks[t].result).fromCache
       /\ IsSome(Val(tasks[t].result).cacheAge)
       /\ Val(Val(tasks[t].result).cacheAge) >= 0

\* no usable snapshot of key: the directory or the file is missing, or
\* the content is not JSON
NoSnapshot(key) ==
  \/ ~disk.dir
  \/ ~IsSome(disk.files[key])
  \/ JsonParse(Val(disk.files[key]).content) = None

\* C22: when the fetcher failed and the catch block finds no usable
\* snapshot of the key, fetchWithCache throws the error the fetcher threw:
\* it returns nothing and throws no other error.
OriginalErrorRethrown ==
  [][\A t \in DOMAIN tasks :
       (/\ FetcherFailed(t)
        /\ tasks[t].pc = "read"
        /\ tasks'[t] # tasks[t]
        /\ NoSnapshot(tasks[t].key))
       => /\ tasks'[t].pc = "threw"
          /\ tasks'[t].result = Some([error |-> Val(tasks[t].error)])
          /\ Val(tasks[t].error) \in FetcherErrors]_vars

\* the fetcher's error came out of a call that found an empty file
OriginalErrorWitness ==
  \E t \in DOMAIN tasks :
    /\ FetcherFailed(t)
    /\ tasks[t].pc = "threw"
    /\ disk.dir
    /\ IsSome(disk.files[tasks[t].key])
    /\ Val(disk.files[tasks[t].key]).content = <<>>
    /\ tasks[t].result = Some([error |-> PlainError("fetcher failed")])

\* C23: a fetchWithCache call whose fetcher returned data returns that
\* data with fromCache false, also when saving the snapshot failed.
FreshDataDespiteSaveFailure ==
  \A t \in DOMAIN tasks :
    (tasks[t].op = "fetchWithCache" /\ IsSome(tasks[t].data) /\ Over(t))
    => /\ tasks[t].pc = "returned"
       /\ tasks[t].result =
            Some([data |-> Val(tasks[t].data), fromCache |-> FALSE])

(***************************************************************************)
(* Concurrent calls of the cache helpers on one key.                       *)
(***************************************************************************)

\* the key the concurrent calls share
RaceKey == "orders"

\* two calls may be in flight at once
InitRace == InitCache({1, 2})

NextRace ==
  \/ \E t \in DOMAIN tasks : FetchWithCache(t, RaceKey)
  \/ \E t \in DOMAIN tasks : \E data \in DataInputs : FetcherReturns(t, data)
  \/ \E t \in DOMAIN tasks : \E error \in FetcherErrors : FetcherThrows(t, error)
  \/ \E t \in DOMAIN tasks : \E data \in DataInputs : SaveToCache(t, RaceKey, data)
  \/ \E t \in DOMAIN tasks : LoadFromCache(t, RaceKey)
  \/ \E t \in DOMAIN tasks : Mkdir(t)
  \/ \E t \in DOMAIN tasks : WriteOpen(t)
  \/ \E t \in DOMAIN tasks : Write(t)
  \/ \E t \in DOMAIN tasks : Read(t)
  \/ \E t \in DOMAIN tasks : Stat(t)
  \/ \E t \in DOMAIN tasks : Settled(t)

SpecRace == InitRace /\ [][NextRace]_vars

\* call t is writing a snapshot
Writing(t) == tasks[t].pc \in {"mkdir", "open", "write"}

\* a load returned no entry or one of the values that are saved
LoadsSeeSavedValues ==
  \A t \in DOMAIN tasks :
    (tasks[t].op = "loadFromCache" /\ tasks[t].pc = "returned")
    => \/ Val(tasks[t].result).value = None
       \/ \E data \in DataInputs : Val(tasks[t].result).value = Some(data)

\* the write that leaves no writer behind leaves its value in the entry
LastWriteStays ==
  \A t \in DOMAIN tasks :
    (/\ tasks[t].pc = "write"
     /\ tasks'[t].pc = "returned"
     /\ \A u \in DOMAIN tasks : u # t => ~Writing(u))
    => loadFromCache(disk', tasks[t].key) = tasks[t].data

\* C24: under every interleaving of fetchWithCache, saveToCache and
\* loadFromCache calls on one key, a load returns no entry or one complete
\* value that a save wrote, and when the last writer finishes the entry
\* holds the value it wrote.
WritesAllOrNothing == []LoadsSeeSavedValues /\ [][LastWriteStays]_vars

(***************************************************************************)
(* src/client.ts: the constructor of TeamDeskClient.                       *)
(*                                                                         *)
(* The fields of the configuration passed in are JavaScript values; a      *)
(* baseUrl is a sequence of pieces of text, so that a trailing "/" is a    *)
(* piece of its own.                                                       *)
(***************************************************************************)

JsUndefined == [t |-> "undefined"]

JsNull == [t |-> "null"]

JsString(s) == [t |-> "string", s |-> s]

JsNumber(n) == [t |-> "number", n |-> n]

JsBoolean(b) == [t |-> "boolean", b |-> b]

\* the truthiness of a value: !value is its negation
JsTruthy(value) ==
  CASE value.t = "string" -> value.s # ""
    [] value.t = "number" -> value.n # 0
    [] value.t = "boolean" -> value.b
    [] OTHER -> FALSE

\* String(config.appId)
AppIdString(appId) ==
  IF appId.t = "number" THEN JoinWith(NumToChars(appId.n), "") ELSE appId.s

\* an optional string property as the model of the request layer reads it
PropertyOf(value) == IF value.t = "undefined" THEN None ELSE Some(value.s)

\* config.baseUrl || "https://www.teamdesk.net/secure/api/v2", then
\* replace(/\/$/, "")
BaseUrlOf(baseUrl) ==
  LET pieces == IF baseUrl.t = "undefined" \/ Len(baseUrl.s) = 0
                THEN <<"https://www.teamdesk.net/secure/api/v2">>
                ELSE baseUrl.s
      cut == IF pieces[Len(pieces)] = "/"
             THEN SubSeq(pieces, 1, Len(pieces) - 1)
             ELSE pieces
  IN JoinWith(cut, "")

\* cacheDir: "./_tdcache" by default, nothing when null or false
CacheDirOf(cacheDir) ==
  IF cacheDir.t = "null" \/ (cacheDir.t = "boolean" /\ ~cacheDir.b) THEN None
  ELSE IF cacheDir.t = "undefined" THEN Some("./_tdcache")
  ELSE Some(cacheDir.s)

\* this.config = { ... }
ConfigOf(c) ==
  [appId |-> AppIdString(c.appId),
   baseUrl |-> BaseUrlOf(c.baseUrl),
   debug |-> IF c.debug.t = "undefined" THEN FALSE ELSE c.debug.b,
   useBearerAuth |-> IF c.useBearerAuth.t = "undefined" THEN FALSE
                     ELSE c.useBearerAuth.b,
   token |-> PropertyOf(c.token),
   user |-> PropertyOf(c.user),
   password |-> PropertyOf(c.password),
   cacheDir |-> CacheDirOf(c.cacheDir)]

\* variant: a constructor that does not test useBearerAuth
constructorAnyBearer(c) ==
  IF ~JsTruthy(c.appId)
  THEN [threw |-> TRUE, error |-> PlainError("appId is required")]
  ELSE IF ~JsTruthy(c.token) /\ ~(JsTruthy(c.user) /\ JsTruthy(c.password))
  THEN [threw |-> TRUE,
        error |-> PlainError(
          "Either token or both user and password must be provided")]
  ELSE [threw |-> FALSE, config |-> ConfigOf(c)]

\* new TeamDeskClient(config)
constructor(c) ==
  IF ~JsTruthy(c.appId)
  THEN [threw |-> TRUE, error |-> PlainError("appId is required")]
  ELSE IF ~JsTruthy(c.token) /\ ~(JsTruthy(c.user) /\ JsTruthy(c.password))
  THEN [threw |-> TRUE,
        error |-> PlainError(
          "Either token or both user and password must be provided")]
  ELSE IF JsTruthy(c.useBearerAuth) /\ ~JsTruthy(c.token)
  THEN [threw |-> TRUE,
        error |-> PlainError(
          "useBearerAuth requires token to be provided (user/password not supported with Bearer auth)")]
  ELSE [threw |-> FALSE, config |-> ConfigOf(c)]

\* the configurations passed to the constructor
ConfigInputs ==
  [appId : {JsUndefined, JsString(""), JsString("15331"), JsNumber(0),
            JsNumber(15331)},
   token : {JsUndefined, JsString(""), JsString("tok")},
   user : {JsUndefined, JsString(""), JsString("ann")},
   password : {JsUndefined, JsString(""), JsString("pw")},
   useBearerAuth : {JsUndefined, JsBoolean(FALSE), JsBoolean(TRUE)},
   baseUrl : {JsUndefined, JsString(<<>>), JsString(<<"https://td.example/api">>),
              JsString(<<"https://td.example/api", "/">>)},
   cacheDir : {JsUndefined, JsNull, JsBoolean(FALSE), JsString("./cache")},
   debug : {JsUndefined}]

\* the fields of a client that is not constructed
NoConfig ==
  [appId |-> "", baseUrl |-> "", debug |-> FALSE, useBearerAuth |-> FALSE,
   token |-> None, user |-> None, password |-> None, cacheDir |-> None]

\* a program about to construct a client from some configuration
InitNew ==
  /\ config = NoConfig
  /\ kind = "table"
  /\ options = NewOptions(None)
  /\ intent = options
  /\ thrown = None
  /\ replaced = None
  /\ CacheIdle
  /\ gens = <<>>
  /\ cursor = <<>>
  /\ exec = IdleExec
  /\ \E c \in ConfigInputs : call = [pc |-> "new", input |-> c]

\* new TeamDeskClient(call.input) runs
Construct ==
  LET made == constructor(call.input)
  IN /\ call.pc = "new"
     /\ IF made.threw
        THEN /\ thrown' = Some([error |-> made.error, op |-> "constructor",
                                arg |-> call.input])
             /\ call' = [call EXCEPT !.pc = "threw"]
             /\ UNCHANGED config
        ELSE /\ config' = made.config
             /\ call' = [call EXCEPT !.pc = "constructed"]
             /\ UNCHANGED thrown
     /\ UNCHANGED <<kind, options, intent, replaced, gens, cursor, exec,
                    cacheVars>>

NextNew == Construct

SpecNew == InitNew /\ [][NextNew]_vars

\* a property of the configuration is there and not empty
Given(value) ==
  \/ value.t = "string" /\ value.s # ""
  \/ value.t = "number" /\ value.n # 0

\* C25: constructing a client throws a plain Error, and no TeamDeskError,
\* exactly when the appId is missing, or no token and not both user and
\* password are given, or useBearerAuth is set without a token; with every
\* other configuration a client is constructed, and no request is made.
UsageErrorExactly ==
  call.pc \in {"threw", "constructed"}
  => LET c == call.input
         bad == \/ ~Given(c.appId)
                \/ ~Given(c.token) /\ ~(Given(c.user) /\ Given(c.password))
                \/ c.useBearerAuth = JsBoolean(TRUE) /\ ~Given(c.token)
     IN /\ call.pc = "threw" <=> bad
        /\ call.pc = "threw"
           => /\ IsSome(thrown)
              /\ Val(thrown).error.name = "Error"
              /\ Val(thrown).error.name \notin TeamDeskErrorClasses
              /\ config = NoConfig
        /\ call.pc = "constructed" => thrown = None /\ config # NoConfig
        /\ exec = IdleExec

\* user and password with useBearerAuth and no token were rejected
UsageErrorWitness ==
  /\ call.pc = "threw"
  /\ call.input.token = JsUndefined
  /\ call.input.user = JsString("ann")
  /\ call.input.password = JsString("pw")
  /\ call.input.useBearerAuth = JsBoolean(TRUE)
  /\ call.input.appId = JsNumber(15331)
  /\ Val(thrown).error.name = "Error"

(***************************************************************************)
(* selectAll() against a backend that holds a fixed list of records and    *)
(* answers a request with the records skip+1 .. skip+top of that list.     *)
(* call.total is the length of the list; records are their positions.      *)
(***************************************************************************)

\* the lengths of the backend's list
TableSizes == {0, 137, 250, 387, 500, 750, 1000, 1137, 1250, 1500, 1637}

InitBackend ==
  /\ config = TokenConfig
  /\ kind \in {"table", "view"}
  /\ \E columns \in ColumnInputs : options = NewOptions(columns)
  /\ intent = options
  /\ thrown = None
  /\ replaced = None
  /\ CacheIdle
  /\ gens = [g \in {1} |-> IdleGen]
  /\ cursor = [g \in {1} |-> 0]
  /\ exec = IdleExec
  /\ \E total \in TableSizes : call = [pc |-> "backend", total |-> total]

\* the number of records the backend returns for skip and top
BackendCount(total, skip, top) ==
  LET left == IF total > skip THEN total - skip ELSE 0
  IN IF left < top THEN left ELSE top

\* the awaited request of generator g is answered by the backend
Serve(g) ==
  /\ gens[g].pc = "awaiting"
  /\ LET req == gens[g].reqs[Len(gens[g].reqs)]
         response == PageResponse(BackendCount(call.total, req.skip, req.top))
         out == request(Val(gens[g].url), response)
     IN gens' = [gens EXCEPT ![g] = GenAfterAwait(@, out)]
  /\ UNCHANGED <<config, kind, options, intent, thrown, replaced, cursor, exec,
                 call, cacheVars>>

NextBackend ==
  \/ \E n \in ValidLimits : Limit(n)
  \/ \E n \in ValidSkips : Skip(n)
  \/ \E g \in DOMAIN gens : SelectAll(g)
  \/ \E g \in DOMAIN gens : PullFirst(g)
  \/ \E g \in DOMAIN gens : PullNext(g)
  \/ \E g \in DOMAIN gens : Serve(g)
  \/ \E g \in DOMAIN gens : PullClosed(g)

SpecBackend == InitBackend /\ [][NextBackend]_vars

\* the records skip+1 .. skip+len of the backend's list
Slice(skip, len) == [i \in 1..len |-> skip + i]

RECURSIVE Concat(_)
Concat(seqs) == IF Len(seqs) = 0 THEN <<>> ELSE seqs[1] \o Concat(Tail(seqs))

\* the sequence of generator g was pulled until it ended by itself
PulledToEnd(g) ==
  /\ gens[g].pc = "done"
  /\ Len(gens[g].resps) > 0
  /\ gens[g].resps[Len(gens[g].resps)] < batchSize

\* the number of records after the base skip of generator g
RecordsAfterSkip(g) ==
  IF call.total > Val(gens[g].s0) THEN call.total - Val(gens[g].s0) ELSE 0

\* C26: a selectAll() sequence pulled to its end against a backend with N
\* records after the base skip has issued N \div 500 + 1 requests, has
\* yielded only pages of 1 to 500 records, and its pages put together are
\* the N records in the backend's order, each once.
PagesCoverBackend ==
  \A g \in DOMAIN gens :
    PulledToEnd(g)
    => LET gen == gens[g]
           N == RecordsAfterSkip(g)
       IN /\ Len(gen.reqs) = (N \div 500) + 1
          /\ \A i \in 1..Len(gen.pages) :
               gen.pages[i] >= 1 /\ gen.pages[i] <= 500
          /\ Concat([i \in 1..Len(gen.pages) |->
                       Slice(gen.reqs[i].skip, gen.pages[i])])
               = Slice(Val(gen.s0), N)

\* 887 records after a base skip of 250 came in pages of 500 and 387
PagesCoverWitness ==
  \E g \in DOMAIN gens :
    /\ PulledToEnd(g)
    /\ call.total = 1137
    /\ gens[g].s0 = Some(250)
    /\ gens[g].pages = <<500, 387>>
    /\ Len(gens[g].reqs) = 2

(***************************************************************************)
(* Mutators called on a builder after its selectAll().                     *)
(***************************************************************************)

\* a new builder: selectAll() is its first call
InitLate == InitBuilder({1})

\* every mutator call comes after the call of selectAll()
NextLate ==
  \/ \E g \in DOMAIN gens : SelectAll(g)
  \/ \E f \in FilterInputs : gens[1].pc # "idle" /\ Filter(f)
  \/ \E k \in SortInputs : gens[1].pc # "idle" /\ Sort(k.column, k.direction)
  \/ \E n \in ValidLimits : gens[1].pc # "idle" /\ Limit(n)
  \/ \E n \in ValidSkips : gens[1].pc # "idle" /\ Skip(n)
  \/ \E g \in DOMAIN gens : PullFirst(g)
  \/ \E g \in DOMAIN gens : PullNext(g)
  \/ \E g \in DOMAIN gens : Respond(g)
  \/ \E g \in DOMAIN gens : PullClosed(g)

SpecLate == InitLate /\ [][NextLate]_vars

\* the options of the builder when selectAll() was called: those of a new
\* builder with its columns
OptionsAtSelectAll == NewOptions(options.columns)

\* C27: the requests of a selectAll() sequence are those of the builder as
\* it was when selectAll() was called: mutator calls made after that call
\* change neither the starting offset nor the columns, filter or sort of a
\* request of the sequence.
SequenceFixedAtCall ==
  \A g \in DOMAIN gens :
    /\ IsSome(gens[g].s0) => Val(gens[g].s0) = StartOffset(OptionsAtSelectAll)
    /\ gens[g].pc = "awaiting"
       => Val(gens[g].url) =
            ExecuteUrl(config, kind, TableName, ViewName,
                       PageOptions(OptionsAtSelectAll,
                                   gens[g].reqs[Len(gens[g].reqs)].skip))

(***************************************************************************)
(* Rejected mutator calls.                                                 *)
(***************************************************************************)

\* C28: a limit(n) or skip(n) call that throws leaves every field of the
\* builder as it was, and an execute() called after it sends the values
\* that were set before the rejected call.
RejectedCallKeepsBuilder ==
  [][/\ (thrown' # thrown /\ IsSome(thrown'))
        => UNCHANGED <<options, intent, kind, config, gens, cursor, exec>>
     /\ (IsSome(thrown) /\ ExecStart)
        => /\ options = intent
           /\ exec'.url =
                Some(ExecuteUrl(config, kind, TableName, ViewName, intent))
           /\ exec'.req = Some([skip |-> intent.skip, top |-> intent.top])]_vars

\* skip(-1) was rejected on a builder with top 100 and skip 250, and an
\* execute() is under way with top 100 and skip 250
RejectedCallWitness ==
  /\ Rejected("skip", 0 - 1)
  /\ options.top = Some(100) /\ options.skip = Some(250)
  /\ exec.pc = "awaiting"
  /\ exec.req = Some([skip |-> Some(250), top |-> Some(100)])
  /\ exec.url = Some(ExecuteUrl(config, kind, TableName, ViewName, intent))

(***************************************************************************)
(* The fields of a write result that do not come from the backend.         *)
(***************************************************************************)

NextWire ==
  \/ \E n \in LimitInputs : Limit(n)
  \/ \E n \in SkipInputs : Skip(n)
  \/ ExecStart
  \/ ExecRespond
  \/ \E g \in DOMAIN gens : SelectAll(g)
  \/ \E g \in DOMAIN gens : PullFirst(g)
  \/ \E g \in DOMAIN gens : PullNext(g)
  \/ \E g \in DOMAIN gens : Respond(g)

SpecWire == Init /\ [][NextWire]_vars

\* the text of a parameter is a number without a sign
NumberText(text) ==
  Len(text) > 0 /\ \A i \in 1..Len(text) : IsDigit(text[i])

\* the top and skip parameters of a URL are within their ranges
TopAndSkipInRange(url) ==
  LET params == ParamsOf(url)
      tops == ValuesOf(params, "top")
      skips == ValuesOf(params, "skip")
  IN /\ \A i \in 1..Len(tops) :
          /\ NumberText(tops[i])
          /\ DigitPrefix(tops[i], 0) >= 1
          /\ DigitPrefix(tops[i], 0) <= 500
     /\ \A i \in 1..Len(skips) : NumberText(skips[i])

\* C30: after any sequence of builder calls, a select request on the wire
\* has no top outside 1..500 and no negative skip, whether execute() or a
\* selectAll() sequence issued it, on a table or on a view.
WireValuesInRange ==
  /\ exec.pc = "awaiting" => TopAndSkipInRange(Val(exec.url))
  /\ \A g \in DOMAIN gens :
       gens[g].pc = "awaiting"
       => /\ TopAndSkipInRange(Val(gens[g].url))
          /\ ValuesOf(ParamsOf(Val(gens[g].url)), "top")
               = <<NumToChars(batchSize)>>

\* on a view, after limit(501) was rejected, an execute() with top 1 and a
\* second page of a selectAll() sequence are on the wire
WireValuesWitness ==
  /\ kind = "view"
  /\ Rejected("limit", 501)
  /\ exec.pc = "awaiting"
  /\ ValuesOf(ParamsOf(Val(exec.url)), "top") = << <<"1">> >>
  /\ ValuesOf(ParamsOf(Val(exec.url)), "skip") = << <<"2", "5", "0">> >>
  /\ gens[1].pc = "awaiting"
  /\ ValuesOf(ParamsOf(Val(gens[1].url)), "skip") = << <<"7", "5", "0">> >>
  /\ ValuesOf(ParamsOf(Val(gens[1].url)), "top") = << <<"5", "0", "0">> >>

====
